---------------------------- MODULE Spec2Model ----------------------------
(***************************************************************************)
(* floppy-go: process orchestration and live console.                      *)
(*                                                                         *)
(* Manager.Up (internal/manager/manager.go) expands the requested          *)
(* services, validates their TCP ports (validatePorts, lsofPort,           *)
(* killPort), launches every service (startService, startWithPipes,        *)
(* readLines and the exit waiters) and hands the two channels to the       *)
(* console (package tui), whose event loop (Model.Update) drains them on   *)
(* every tick.                                                             *)
(***************************************************************************)
EXTENDS Integers, Sequences, FiniteSets, TLC

(***************************************************************************)
(* Generic helpers                                                         *)
(***************************************************************************)
Range(s) == {s[i] : i \in 1..Len(s)}

Perms(S) == {f \in [1..Cardinality(S) -> S] : \A i, j \in 1..Cardinality(S) : f[i] = f[j] => i = j}

Min(a, b) == IF a <= b THEN a ELSE b

RECURSIVE SortedSeq(_)
\* the elements of a finite set of integers, ascending
SortedSeq(S) ==
    IF S = {} THEN <<>>
    ELSE LET m == CHOOSE x \in S : \A y \in S : x <= y
         IN <<m>> \o SortedSeq(S \ {m})

RECURSIVE Flatten(_)
Flatten(ss) == IF ss = <<>> THEN <<>> ELSE Head(ss) \o Flatten(Tail(ss))

(***************************************************************************)
(* Configuration (package config): the static service/bundle definition    *)
(***************************************************************************)
\* ServiceDef of the services of the configuration under verification.  A
\* command line is the sequence of its words and of the blanks (" ") between
\* them; <<>> is the empty string.
Services ==
    [api |-> [Type |-> "api",    Port |-> 8000, HMRPort |-> 0,    WSPort |-> 0, Command |-> <<>>, DockerCommand |-> <<>>],
     web |-> [Type |-> "portal", Port |-> 3000, HMRPort |-> 3001, WSPort |-> 0, Command |-> <<>>, DockerCommand |-> <<>>],
     wrk |-> [Type |-> "worker", Port |-> 0,    HMRPort |-> 0,    WSPort |-> 0, Command |-> <<>>, DockerCommand |-> <<>>],
     dkr |-> [Type |-> "docker", Port |-> 8000, HMRPort |-> 0,    WSPort |-> 0, Command |-> <<>>, DockerCommand |-> <<>>],
     adm |-> [Type |-> "portal", Port |-> 0,    HMRPort |-> 0,    WSPort |-> 0, Command |-> <<>>, DockerCommand |-> <<>>],
     blk |-> [Type |-> "docker", Port |-> 0,    HMRPort |-> 0,    WSPort |-> 0, Command |-> <<" ", " ">>, DockerCommand |-> <<>>]]

Bundles ==
    [core  |-> <<"api", "wrk">>,
     front |-> <<"web", "api">>,
     empty |-> <<>>]

\* the zero ServiceDef a Go map lookup yields for a missing key
ZeroSvc == [Type |-> "", Port |-> 0, HMRPort |-> 0, WSPort |-> 0, Command |-> <<>>, DockerCommand |-> <<>>]

SvcDef(name) == IF name \in DOMAIN Services THEN Services[name] ELSE ZeroSvc

\* the fixed default websocket port of the bundler
ViteDefaultWSPort == 24678

\* Config.ExpandBundles: the set the names are flattened into
RECURSIVE ExpandSet(_)
ExpandSet(names) ==
    IF names = <<>> THEN {}
    ELSE (IF Head(names) \in DOMAIN Bundles
             THEN Range(Bundles[Head(names)])
             ELSE {Head(names)}) \cup ExpandSet(Tail(names))

\* Config.ExpandBundles returns the set in map-iteration order: any order
ExpandBundles(names) == Perms(ExpandSet(names))

\* Config.ServiceNames: the keys of the service map, in any order
ServiceNames == Perms(DOMAIN Services)


(***************************************************************************)
(* State                                                                   *)
(***************************************************************************)
VARIABLES
    \* operating system, as floppy sees it
    listeners,    \* port -> set of pids of the processes that own the port
    lsofErr,      \* the ports whose lsof probe fails (tool or permission error)
    signals,      \* the syscall.Kill calls made so far, in order: [pid, sig]
    \* Manager.Up
    pc,           \* position of the thread that runs Up
    up,           \* the arguments of Up: [names, detached, force, noPTY]
    services,     \* the expanded service list
    mstatuses,    \* Manager.statuses
    reports,      \* the conflict lists validatePorts has printed, one per run of Up
    upErr,        \* the error Up returned ("" for nil)
    order,        \* others ++ portal: the launch order
    next,         \* index into order of the next service to launch
    \* processes and their tasks
    proc,         \* service -> the process started for it and its tasks
    \* the two channels
    statusCh, logCh,
    \* console (tui.Model)
    console,      \* position of the console's event loop
    logs, statuses, filters, interrupted,
    focusStatus, filterMode, filterText, selected,
    follow,       \* Model.follow
    viewport,     \* Model.viewport: [YOffset, Height, visible (lines of content)]
    logSelStart, logSelEnd, logSelecting,
    colors,       \* Model.colors: service -> the colour of its log prefix
    clipboard,    \* the system clipboard: <<s, e>>, the characters s+1..e of the log text, or <<>>
    pgStatsCh,    \* Model.pgStatsCh: [nil, buf], a channel of capacity 1 or nil
    pgStats,      \* Model.pgStats: the fetch whose result is shown, 0 for nil
    tickCount,    \* Model.tickCount (kept only when the statistics are enabled)
    fetching,     \* the statistics fetches that are running
    fetched,      \* the statistics fetches that have returned, in that order
    \* the producers of the console taken alone
    envSent,      \* how many messages the producers have sent
    \* Manager.Stop
    stops,        \* the calls of Stop so far: [services, results, err]
    \* the launch loop of Up, as an observer sees it
    launched,     \* the sleeps, the start attempts and their returns, in order
    \* a function of the program called on its own
    call          \* the arguments of the call and, once made, its result

osVars == <<listeners, lsofErr, signals>>
upVars == <<pc, up, services, mstatuses, reports, upErr, order, next>>
chVars == <<statusCh, logCh>>
uiVars == <<console, logs, statuses, filters, interrupted, focusStatus, filterMode, filterText, selected>>
pgVars == <<pgStatsCh, pgStats, tickCount, fetching, fetched>>
viewVars == <<follow, viewport, logSelStart, logSelEnd, logSelecting, colors, clipboard, pgVars>>
auxVars == <<launched, call>>
vars == <<osVars, upVars, proc, chVars, uiVars, envSent, viewVars, stops, auxVars>>

(***************************************************************************)
(* Port Resolver (internal/manager/ports.go, Manager.validatePorts)        *)
(***************************************************************************)
\* what `lsof -i tcp:<port>` does on the system: it fails (stderr), exits
\* non-zero with no output when nothing owns the port, or prints a header
\* line and one line per owning process
LsofRun(L, E, port) ==
    IF port \in E THEN [exit |-> "fail", lines |-> <<>>]
    ELSE IF L[port] = {} THEN [exit |-> "exit1", lines |-> <<>>]
    ELSE [exit |-> "ok",
          lines |-> <<[hdr |-> TRUE, pid |-> 0]>> \o
                    [i \in 1..Cardinality(L[port]) |-> [hdr |-> FALSE, pid |-> SortedSeq(L[port])[i]]]]

\* a faulty variant of lsofPort: a failed probe is taken for an owned port
lsofPort_FailIsBusy(L, E, port) ==
    LET out == LsofRun(L, E, port)
    IN IF out.exit = "exit1" THEN [err |-> FALSE, lines |-> <<>>]
       ELSE IF out.exit = "fail" THEN [err |-> FALSE, lines |-> <<[hdr |-> FALSE, pid |-> 0]>>]
       ELSE [err |-> FALSE,
             lines |-> IF out.lines = <<>> THEN <<>> ELSE Tail(out.lines)]

\* lsofPort: (lines, err); the first non-empty line (the header) is skipped
lsofPort(L, E, port) ==
    LET out == LsofRun(L, E, port)
    IN IF out.exit = "exit1" THEN [err |-> FALSE, lines |-> <<>>]
       ELSE IF out.exit = "fail" THEN [err |-> TRUE, lines |-> <<>>]
       ELSE [err |-> FALSE,
             lines |-> IF out.lines = <<>> THEN <<>> ELSE Tail(out.lines)]

\* `lsof -t -i tcp:<port>`: the pids alone; any non-zero exit is an error
LsofPids(L, E, port) ==
    IF port \in E \/ L[port] = {} THEN [err |-> TRUE, pids |-> <<>>]
    ELSE [err |-> FALSE, pids |-> SortedSeq(L[port])]

\* the process `pid` is gone: it owns no port any more
Reap(L, pid) == [p \in DOMAIN L |-> L[p] \ {pid}]

RECURSIVE TermKill(_, _)
\* a faulty variant of TermKill: the forced kill is forgotten
TermKill_TermOnly(pids, st) ==
    IF pids = <<>> THEN st
    ELSE TermKill(Tail(pids),
                  [listeners |-> Reap(st.listeners, Head(pids)),
                   signals   |-> st.signals \o <<[pid |-> Head(pids), sig |-> "SIGTERM"]>>])

\* killPort's loop: SIGTERM, wait 500ms, SIGKILL for every pid listed
TermKill(pids, st) ==
    IF pids = <<>> THEN st
    ELSE TermKill(Tail(pids),
                  [listeners |-> Reap(st.listeners, Head(pids)),
                   signals   |-> st.signals \o <<[pid |-> Head(pids), sig |-> "SIGTERM"],
                                                [pid |-> Head(pids), sig |-> "SIGKILL"]>>])

\* killPort: st is [listeners, signals]
killPort(st, E, port) ==
    LET out == LsofPids(st.listeners, E, port)
    IN IF out.err THEN st ELSE TermKill(out.pids, st)

\* the uses of ports one service adds to the `ports` map, in code order
PortUses(name) ==
    LET svc == SvcDef(name)
    IN (IF svc.Port > 0 THEN <<[port |-> svc.Port, user |-> <<name, "main">>]>> ELSE <<>>)
       \o (IF svc.Type = "portal"
           THEN (IF svc.HMRPort > 0 THEN <<[port |-> svc.HMRPort, user |-> <<name, "HMR">>]>> ELSE <<>>)
                \o (IF svc.WSPort > 0 THEN <<[port |-> svc.WSPort, user |-> <<name, "WebSocket">>]>> ELSE <<>>)
                \o <<[port |-> ViteDefaultWSPort, user |-> <<name, "Vite default WebSocket">>]>>
           ELSE <<>>)

\* a faulty variant of RequiredPorts: a later user of a port replaces the
\* earlier ones instead of being appended to them
RequiredPorts_Overwrite(svcs) ==
    LET uses == Flatten([i \in 1..Len(svcs) |-> PortUses(svcs[i])])
        users(p) == LET mine == SelectSeq(uses, LAMBDA u : u.port = p)
                    IN <<mine[Len(mine)].user>>
    IN [p \in {uses[i].port : i \in 1..Len(uses)} |-> users(p)]

\* the `ports` map of validatePorts: port -> the users that need it
RequiredPorts(svcs) ==
    LET uses == Flatten([i \in 1..Len(svcs) |-> PortUses(svcs[i])])
        users(p) == LET mine == SelectSeq(uses, LAMBDA u : u.port = p)
                    IN [i \in 1..Len(mine) |-> mine[i].user]
    IN [p \in {uses[i].port : i \in 1..Len(uses)} |-> users(p)]

RECURSIVE ProbeAll(_, _, _, _)
\* a faulty variant of ProbeAll: the loop stops at the first conflict
ProbeAll_FirstOnly(ord, ports, L, E) ==
    IF ord = <<>> THEN <<>>
    ELSE LET port == Head(ord)
             res  == lsofPort(L, E, port)
         IN IF res.err THEN ProbeAll(Tail(ord), ports, L, E)
            ELSE IF Len(res.lines) > 0
                 THEN <<[Port |-> port, Services |-> ports[port], Processes |-> res.lines]>>
                 ELSE ProbeAll(Tail(ord), ports, L, E)

\* the probe loop of validatePorts over the ports in the order `ord`
ProbeAll(ord, ports, L, E) ==
    IF ord = <<>> THEN <<>>
    ELSE LET port == Head(ord)
             res  == lsofPort(L, E, port)
             rest == ProbeAll(Tail(ord), ports, L, E)
         IN IF res.err THEN rest
            ELSE IF Len(res.lines) > 0
                 THEN <<[Port |-> port, Services |-> ports[port], Processes |-> res.lines]>> \o rest
                 ELSE rest

RECURSIVE KillConflicts(_, _, _)
\* the force branch of validatePorts: killPort for every conflict, in order
KillConflicts(cs, st, E) ==
    IF cs = <<>> THEN st
    ELSE KillConflicts(Tail(cs), killPort(st, E, Head(cs).Port), E)

\* a faulty variant of validatePorts: conflicts without force are only reported
validatePorts_NoAbort(svcs, force, ord, L, E, sigs) ==
    LET ports == RequiredPorts(svcs)
        cs    == ProbeAll(ord, ports, L, E)
        st0   == [listeners |-> L, signals |-> sigs]
    IN IF Len(cs) = 0
       THEN [err |-> FALSE, conflicts |-> cs, listeners |-> L, signals |-> sigs]
       ELSE IF force
            THEN LET st == KillConflicts(cs, st0, E)
                 IN [err |-> FALSE, conflicts |-> cs, listeners |-> st.listeners, signals |-> st.signals]
            ELSE [err |-> FALSE, conflicts |-> cs, listeners |-> L, signals |-> sigs]

\* validatePorts(services, force), probing in the order `ord` of the map
\* iteration: [err, conflicts, listeners, signals]
validatePorts(svcs, force, ord, L, E, sigs) ==
    LET ports == RequiredPorts(svcs)
        cs    == ProbeAll(ord, ports, L, E)
        st0   == [listeners |-> L, signals |-> sigs]
    IN IF Len(cs) = 0
       THEN [err |-> FALSE, conflicts |-> cs, listeners |-> L, signals |-> sigs]
       ELSE IF force
            THEN LET st == KillConflicts(cs, st0, E)
                 IN [err |-> FALSE, conflicts |-> cs, listeners |-> st.listeners, signals |-> st.signals]
            ELSE [err |-> TRUE, conflicts |-> cs, listeners |-> L, signals |-> sigs]

\* conflictsSummary: the ports of the conflicts, in order
conflictsSummary(cs) == [i \in 1..Len(cs) |-> cs[i].Port]


(***************************************************************************)
(* Process Launcher (Manager.Up, startService, startWithPipes)             *)
(***************************************************************************)
\* capacity of the status channel and of the log channel (make(chan ..., n))
StatusChCap == 64
LogChCap == 2048

\* the most lines the processes write, all together, in a run of the model
MaxLines == 1

Streams == {"pty", "stdout", "stderr"}

\* a faulty variant of ModeStreams: in pipe mode only stdout is read
ModeStreams_StdoutOnly(mode) ==
    CASE mode = "pty"  -> {"pty"}
      [] mode = "pipe" -> {"stdout"}
      [] OTHER         -> {}

\* the streams of a capture mode, each drained by its own reader task
ModeStreams(mode) ==
    CASE mode = "pty"  -> {"pty"}
      [] mode = "pipe" -> {"stdout", "stderr"}
      [] OTHER         -> {}

\* the pid the system gives the process of a service
SvcPid(name) ==
    CASE name = "api" -> 101
      [] name = "web" -> 102
      [] name = "wrk" -> 103
      [] name = "adm" -> 105
      [] OTHER        -> 104

NoProc ==
    [state |-> "none", mode |-> "none", pid |-> 0, ptyDenied |-> FALSE,
     emitted |-> 0, buf |-> [st \in Streams |-> <<>>], readers |-> {}, waiter |-> "none"]

\* strings.Fields: the words of a command line
Fields(cmdLine) == SelectSeq(cmdLine, LAMBDA w : w # " ")

\* buildCommand: [err, panic, argv]
buildCommand(name, svc) ==
    CASE svc.Type \in {"api", "webapp", "library", "python"} ->
            [err |-> "", panic |-> FALSE,
             argv |-> <<"poetry", "run">> \o (IF svc.Command = <<>> THEN <<"dev">> ELSE svc.Command)]
      [] svc.Type = "worker" ->
            [err |-> "", panic |-> FALSE, argv |-> <<"poetry", "run", "worker">>]
      [] svc.Type = "portal" ->
            [err |-> "", panic |-> FALSE, argv |-> <<"bun", "dev">>]
      [] svc.Type = "docker" ->
            IF svc.Command = <<>> /\ svc.DockerCommand = <<>>
            THEN [err |-> "missing command", panic |-> FALSE, argv |-> <<>>]
            ELSE LET parts == Fields(IF svc.Command = <<>> THEN svc.DockerCommand ELSE svc.Command)
                 IN [err |-> "", panic |-> parts = <<>>, argv |-> parts]
      [] OTHER ->
            [err |-> "unknown service type", panic |-> FALSE, argv |-> <<>>]

\* what the system answers to pty.Start / cmd.Start
StartResults == {"ok", "eperm", "fail"}

\* a faulty variant of Started: the exit waiter runs before `running` is sent
Started_WaiterFirst(name, mode, denied) ==
    [NoProc EXCEPT !.state = "running", !.mode = mode, !.pid = SvcPid(name), !.ptyDenied = denied,
                   !.waiter = "waiting"]

\* the process of `name` has been started in `mode` (trackProcess included)
Started(name, mode, denied) ==
    [NoProc EXCEPT !.state = "running", !.mode = mode, !.pid = SvcPid(name), !.ptyDenied = denied]

\* a faulty variant of startService: the fallback to pipes is taken without a warning
startService_SilentFallback(name, detached, noPTY, res) ==
    LET svc == SvcDef(name)
        cmd == buildCommand(name, svc)
    IN IF name \notin DOMAIN Services THEN [step |-> "sendError", proc |-> NoProc]
       ELSE IF cmd.err # "" THEN [step |-> "sendError", proc |-> NoProc]
       ELSE IF cmd.panic THEN [step |-> "panicked", proc |-> NoProc]
       ELSE IF detached
            THEN IF res = "ok" THEN [step |-> "sendRunning", proc |-> Started(name, "detached", FALSE)]
                 ELSE [step |-> "sendError", proc |-> NoProc]
       ELSE IF noPTY
            THEN IF res = "ok" THEN [step |-> "sendRunning", proc |-> Started(name, "pipe", FALSE)]
                 ELSE [step |-> "sendError", proc |-> NoProc]
       ELSE IF res = "ok" THEN [step |-> "sendRunning", proc |-> Started(name, "pty", FALSE)]
       ELSE IF res = "eperm" THEN [step |-> "sendRunning", proc |-> Started(name, "pipe", TRUE)]
       ELSE [step |-> "sendError", proc |-> NoProc]

\* startService up to its first channel send or its return; `res` is the
\* answer of the system to the start of the process.
\* [step, proc]: the launcher's next step and the process record
startService(name, detached, noPTY, res) ==
    LET svc == SvcDef(name)
        cmd == buildCommand(name, svc)
    IN IF name \notin DOMAIN Services THEN [step |-> "sendError", proc |-> NoProc]
       ELSE IF cmd.err # "" THEN [step |-> "sendError", proc |-> NoProc]
       ELSE IF cmd.panic THEN [step |-> "panicked", proc |-> NoProc]
       ELSE IF detached
            THEN IF res = "ok" THEN [step |-> "sendRunning", proc |-> Started(name, "detached", FALSE)]
                 ELSE [step |-> "sendError", proc |-> NoProc]
       ELSE IF noPTY
            THEN IF res = "ok" THEN [step |-> "sendRunning", proc |-> Started(name, "pipe", FALSE)]
                 ELSE [step |-> "sendError", proc |-> NoProc]
       ELSE IF res = "ok" THEN [step |-> "sendRunning", proc |-> Started(name, "pty", FALSE)]
       ELSE IF res = "eperm" THEN [step |-> "sendWarn", proc |-> NoProc]
       ELSE [step |-> "sendError", proc |-> NoProc]

\* the fallback of startService after the warning: buildCommand again, then
\* startWithPipes
startFallback(name, res) ==
    LET cmd == buildCommand(name, SvcDef(name))
    IN IF cmd.err # "" THEN [step |-> "sendError", proc |-> NoProc]
       ELSE IF res = "ok" THEN [step |-> "sendRunning", proc |-> Started(name, "pipe", TRUE)]
       ELSE [step |-> "sendError", proc |-> NoProc]

RunningUpdate(name) == [Name |-> name, Status |-> "running", PID |-> SvcPid(name)]
StoppedUpdate(name) == [Name |-> name, Status |-> "stopped", PID |-> 0]
ErrorUpdate(name)   == [Name |-> name, Status |-> "error", PID |-> 0]
WarnLine(name)  == [Service |-> "WARN", Text |-> <<name, "PTY not permitted, falling back to pipes">>]
ErrorLine(name) == [Service |-> "ERROR", Text |-> <<name, "err">>]

\* a faulty variant of UpEnter: an empty service list is not refused
UpEnter_NoEmptyCheck ==
    /\ pc = "enter"
    /\ \E names \in (IF up.names = <<>> THEN ServiceNames ELSE {up.names}) :
       \E svcs \in ExpandBundles(names) :
          /\ services' = svcs
          /\ mstatuses' = [n \in Range(svcs) |->
                             [Name |-> n, Type |-> SvcDef(n).Type, Port |-> SvcDef(n).Port,
                              Status |-> "starting"]]
          /\ pc' = "validate"
          /\ UNCHANGED upErr
    /\ UNCHANGED <<osVars, up, reports, order, next, proc, chVars, uiVars, envSent, viewVars, stops, auxVars>>

\* Up, lines 52-64: expansion and the initial status table
UpEnter ==
    /\ pc = "enter"
    /\ \E names \in (IF up.names = <<>> THEN ServiceNames ELSE {up.names}) :
       \E svcs \in ExpandBundles(names) :
          /\ services' = svcs
          /\ IF Len(svcs) = 0
             THEN /\ upErr' = "no services to start"
                  /\ pc' = "returned"
                  /\ UNCHANGED mstatuses
             ELSE /\ mstatuses' = [n \in Range(svcs) |->
                                     [Name |-> n, Type |-> SvcDef(n).Type, Port |-> SvcDef(n).Port,
                                      Status |-> "starting"]]
                  /\ pc' = "validate"
                  /\ UNCHANGED upErr
    /\ UNCHANGED <<osVars, up, reports, order, next, proc, chVars, uiVars, envSent, viewVars, stops, auxVars>>

\* Up, lines 66-81: validatePorts, then the split into others and portal
UpValidate ==
    /\ pc = "validate"
    /\ \E ord \in Perms(DOMAIN RequiredPorts(services)) :
          LET r == validatePorts(services, up.force, ord, listeners, lsofErr, signals)
          IN /\ reports' = Append(reports, r.conflicts)
             /\ listeners' = r.listeners
             /\ signals' = r.signals
             /\ IF r.err
                THEN /\ upErr' = "port conflicts"
                     /\ pc' = "returned"
                     /\ UNCHANGED order
                ELSE /\ order' = SelectSeq(services, LAMBDA n : SvcDef(n).Type # "portal")
                                 \o SelectSeq(services, LAMBDA n : SvcDef(n).Type = "portal")
                     /\ pc' = "begin"
                     /\ UNCHANGED upErr
    /\ UNCHANGED <<lsofErr, up, services, mstatuses, next, proc, chVars, uiVars, envSent, viewVars, stops, auxVars>>

\* the delay between two portal starts, in seconds
PortalDelay == 2

\* no function is being called on its own
NoCall == [fn |-> "none"]

\* the index, from 0, of ord[i] in the loop that starts it: the loop of the
\* others or the loop of the portals
LoopIndex(ord, i) ==
    Cardinality({j \in 1..(i - 1) : (SvcDef(ord[j]).Type = "portal") = (SvcDef(ord[i]).Type = "portal")})

\* a faulty variant of SleepBefore: the portal loop sleeps before every portal
SleepBefore_EveryPortal(ord, i) ==
    IF SvcDef(ord[i]).Type = "portal"
    THEN <<[ev |-> "sleep", name |-> "", d |-> PortalDelay]>> ELSE <<>>

\* the portal loop sleeps before every portal but its first
SleepBefore(ord, i) ==
    IF SvcDef(ord[i]).Type = "portal" /\ LoopIndex(ord, i) > 0
    THEN <<[ev |-> "sleep", name |-> "", d |-> PortalDelay]>> ELSE <<>>

StartEvent(name) == [ev |-> "start", name |-> name, d |-> 0]
ReturnEvent(name) == [ev |-> "return", name |-> name, d |-> 0]

\* what the two launch loops do for the launch order `ord`, when complete
LaunchTrace(ord) ==
    Flatten([i \in 1..Len(ord) |->
               SleepBefore(ord, i) \o <<StartEvent(ord[i]), ReturnEvent(ord[i])>>])

\* the sleep of the portal loop, then startFn(name) up to the first send of
\* startService
LaunchBegin ==
    /\ pc = "begin"
    /\ next <= Len(order)
    /\ \E res \in StartResults :
          LET name == order[next]
              r == startService(name, up.detached, up.noPTY, res)
          IN /\ pc' = r.step
             /\ proc' = IF r.proc.state = "none" THEN proc ELSE [proc EXCEPT ![name] = r.proc]
             /\ launched' = launched \o SleepBefore(order, next) \o <<StartEvent(name)>>
    /\ UNCHANGED <<osVars, up, services, mstatuses, reports, upErr, order, next, chVars, uiVars, envSent, viewVars, stops, call>>

\* logCh <- WARN, then the start in pipe mode
LaunchWarn ==
    /\ pc = "sendWarn"
    /\ Len(logCh) < LogChCap
    /\ logCh' = Append(logCh, WarnLine(order[next]))
    /\ \E res \in StartResults \ {"eperm"} :
          LET name == order[next]
              r == startFallback(name, res)
          IN /\ pc' = r.step
             /\ proc' = IF r.proc.state = "none" THEN proc ELSE [proc EXCEPT ![name] = r.proc]
    /\ UNCHANGED <<osVars, up, services, mstatuses, reports, upErr, order, next, statusCh, uiVars, envSent, viewVars, stops, auxVars>>

\* statusCh <- running, then the reader tasks and the exit waiter are started
LaunchRunning ==
    /\ pc = "sendRunning"
    /\ Len(statusCh) < StatusChCap
    /\ LET name == order[next]
       IN /\ statusCh' = Append(statusCh, RunningUpdate(name))
          /\ proc' = [proc EXCEPT ![name].readers = ModeStreams(proc[name].mode),
                                  ![name].waiter = "waiting"]
    /\ pc' = "begin"
    /\ next' = next + 1
    /\ launched' = Append(launched, ReturnEvent(order[next]))
    /\ UNCHANGED <<osVars, up, services, mstatuses, reports, upErr, order, logCh, uiVars, envSent, viewVars, stops, call>>

\* startFn: statusCh <- error
LaunchError ==
    /\ pc = "sendError"
    /\ Len(statusCh) < StatusChCap
    /\ statusCh' = Append(statusCh, ErrorUpdate(order[next]))
    /\ pc' = "sendErrLog"
    /\ UNCHANGED <<osVars, up, services, mstatuses, reports, upErr, order, next, proc, logCh, uiVars, envSent, viewVars, stops, auxVars>>

\* a faulty variant of LaunchErrLog: a failed start ends the launch loop
LaunchErrLog_Abort ==
    /\ pc = "sendErrLog"
    /\ Len(logCh) < LogChCap
    /\ logCh' = Append(logCh, ErrorLine(order[next]))
    /\ pc' = "begin"
    /\ next' = Len(order) + 1
    /\ launched' = Append(launched, ReturnEvent(order[next]))
    /\ UNCHANGED <<osVars, up, services, mstatuses, reports, upErr, order, proc, statusCh, uiVars, envSent, viewVars, stops, call>>

\* startFn: logCh <- ERROR line
LaunchErrLog ==
    /\ pc = "sendErrLog"
    /\ Len(logCh) < LogChCap
    /\ logCh' = Append(logCh, ErrorLine(order[next]))
    /\ pc' = "begin"
    /\ next' = next + 1
    /\ launched' = Append(launched, ReturnEvent(order[next]))
    /\ UNCHANGED <<osVars, up, services, mstatuses, reports, upErr, order, proc, statusCh, uiVars, envSent, viewVars, stops, call>>


(***************************************************************************)
(* Output & Status Multiplexer: the processes, their readers and waiters   *)
(***************************************************************************)
RECURSIVE SumOver(_, _)
SumOver(f, S) ==
    IF S = {} THEN 0
    ELSE LET x == CHOOSE y \in S : TRUE IN f[x] + SumOver(f, S \ {x})

\* the lines written so far by all the processes
Written == SumOver([n \in DOMAIN proc |-> proc[n].emitted], DOMAIN proc)

\* a running process writes one more line to one of its streams, `max` lines
\* being the most all the processes write
ProcWriteUpTo(name, st, max) ==
    /\ proc[name].state = "running"
    /\ st \in ModeStreams(proc[name].mode)
    /\ Written < max
    /\ proc' = [proc EXCEPT ![name].emitted = @ + 1,
                            ![name].buf[st] = Append(@, proc[name].emitted + 1)]
    /\ UNCHANGED <<osVars, upVars, chVars, uiVars, envSent, viewVars, stops, auxVars>>

ProcWrite(name, st) == ProcWriteUpTo(name, st, MaxLines)

\* the process of a service exits: it owns no port any more
ProcExit(name) ==
    /\ proc[name].state = "running"
    /\ proc' = [proc EXCEPT ![name].state = "exited"]
    /\ listeners' = Reap(listeners, proc[name].pid)
    /\ UNCHANGED <<lsofErr, signals, upVars, chVars, uiVars, envSent, viewVars, stops, auxVars>>

\* the running process of a service binds the primary port of the service
ProcListen(name) ==
    /\ proc[name].state = "running"
    /\ SvcDef(name).Port > 0
    /\ proc[name].pid \notin listeners[SvcDef(name).Port]
    /\ listeners' = [listeners EXCEPT ![SvcDef(name).Port] = @ \cup {proc[name].pid}]
    /\ UNCHANGED <<lsofErr, signals, upVars, proc, chVars, uiVars, envSent, viewVars, stops, auxVars>>

\* a faulty variant of ReaderForward: the line is dropped when logCh is full
ReaderForward_DropWhenFull(name, st) ==
    /\ st \in proc[name].readers
    /\ proc[name].buf[st] # <<>>
    /\ logCh' = IF Len(logCh) < LogChCap
                THEN Append(logCh, [Service |-> name, Text |-> <<st, Head(proc[name].buf[st])>>])
                ELSE logCh
    /\ proc' = [proc EXCEPT ![name].buf[st] = Tail(@)]
    /\ UNCHANGED <<osVars, upVars, statusCh, uiVars, envSent, viewVars, stops, auxVars>>

\* readLines / the PTY reader: one line read and forwarded to logCh
ReaderForward(name, st) ==
    /\ st \in proc[name].readers
    /\ proc[name].buf[st] # <<>>
    /\ Len(logCh) < LogChCap
    /\ logCh' = Append(logCh, [Service |-> name, Text |-> <<st, Head(proc[name].buf[st])>>])
    /\ proc' = [proc EXCEPT ![name].buf[st] = Tail(@)]
    /\ UNCHANGED <<osVars, upVars, statusCh, uiVars, envSent, viewVars, stops, auxVars>>

\* end of stream: the reader returns
ReaderEOF(name, st) ==
    /\ st \in proc[name].readers
    /\ proc[name].buf[st] = <<>>
    /\ proc[name].state = "exited"
    /\ proc' = [proc EXCEPT ![name].readers = @ \ {st}]
    /\ UNCHANGED <<osVars, upVars, chVars, uiVars, envSent, viewVars, stops, auxVars>>

\* cmd.Wait() closes the read ends StdoutPipe and StderrPipe returned once
\* it has seen the process exit: what the readers have not read yet is
\* gone, their next read fails.  A PTY is closed by its reader alone.
closeAfterWait(p) ==
    IF p.mode = "pipe" THEN [p EXCEPT !.buf = [st \in Streams |-> <<>>]] ELSE p

\* the exit waiter: cmd.Wait() has returned, statusCh <- stopped
WaiterStopped(name) ==
    /\ proc[name].waiter = "waiting"
    /\ proc[name].state = "exited"
    /\ Len(statusCh) < StatusChCap
    /\ statusCh' = Append(statusCh, StoppedUpdate(name))
    /\ proc' = [proc EXCEPT ![name] = [closeAfterWait(@) EXCEPT !.waiter = "done"]]
    /\ UNCHANGED <<osVars, upVars, logCh, uiVars, envSent, viewVars, stops, auxVars>>

(***************************************************************************)
(* Live Console (package tui, Model)                                       *)
(***************************************************************************)
\* capacity of the log buffer of the console
LogCap == 2000

\* the bytes of the names the console sees
Chars(name) ==
    CASE name = "api" -> <<"a", "p", "i">>
      [] name = "web" -> <<"w", "e", "b">>
      [] name = "wrk" -> <<"w", "r", "k">>
      [] name = "dkr" -> <<"d", "k", "r">>
      [] name = "adm" -> <<"a", "d", "m">>
      [] OTHER        -> <<>>

\* the names in byte order (the order of rows[j].Name < rows[i].Name)
NamesInOrder == <<"adm", "api", "dkr", "web", "wrk">>

\* strings.ToLower, byte by byte
LowerChar(c) ==
    CASE c = "A" -> "a"
      [] c = "W" -> "w"
      [] OTHER   -> c

ToLower(str) == [i \in 1..Len(str) |-> LowerChar(str[i])]

\* strings.Contains
Contains(str, sub) ==
    \E i \in 0..(Len(str) - Len(sub)) : \A j \in 1..Len(sub) : str[i + j] = sub[j]

\* a Go map lookup in m.filters: false for a missing key
FilterGet(f, name) == IF name \in DOMAIN f THEN f[name] ELSE FALSE

\* m[key] = val on a Go map
MapSet(m, key, val) == [k \in DOMAIN m \cup {key} |-> IF k = key THEN val ELSE m[k]]

\* the empty Go map
EmptyMap == [k \in {} |-> FALSE]

\* a faulty variant of appendLog: over the cap the newest line is dropped
appendLog_KeepOldest(st, line) ==
    LET service == IF line.Service = "" THEN "INFO" ELSE line.Service
        grown   == Append(st.logs, [Service |-> service, Text |-> line.Text])
    IN [logs    |-> IF Len(grown) > LogCap THEN SubSeq(grown, 1, LogCap) ELSE grown,
        filters |-> IF service \in DOMAIN st.filters THEN st.filters
                    ELSE MapSet(st.filters, service, TRUE)]

\* appendLog on [logs, filters]
appendLog(st, line) ==
    LET service == IF line.Service = "" THEN "INFO" ELSE line.Service
        grown   == Append(st.logs, [Service |-> service, Text |-> line.Text])
    IN [logs    |-> IF Len(grown) > LogCap
                    THEN SubSeq(grown, Len(grown) - LogCap + 1, Len(grown))
                    ELSE grown,
        filters |-> IF service \in DOMAIN st.filters THEN st.filters
                    ELSE MapSet(st.filters, service, TRUE)]

RECURSIVE drainLogs(_, _)
\* a faulty variant of drainLogs: one line is received on every tick
drainLogs_OnePerTick(st, ch) ==
    IF ch = <<>> THEN st ELSE appendLog(st, ch[1])

\* drainLogs: appendLog for every line queued on the channel `ch`, in the
\* order of the channel: the first half of the queue, then the second (the
\* buffer the first half leaves is within LogCap, as appendLog trims it)
drainLogs(st, ch) ==
    IF ch = <<>> THEN st
    ELSE IF Len(ch) = 1 THEN appendLog(st, ch[1])
    ELSE LET half  == Len(ch) \div 2
             front == drainLogs(st, SubSeq(ch, 1, half))
         IN IF Len(front.logs) <= LogCap
            THEN drainLogs(front, SubSeq(ch, half + 1, Len(ch)))
            ELSE front

\* a faulty variant of applyStatus: every update makes its service visible again
applyStatus_ResetsFilter(st, update) ==
    LET old == IF update.Name \in DOMAIN st.statuses THEN st.statuses[update.Name]
               ELSE [Name |-> "", Status |-> "", Port |-> 0]
        row == [Name   |-> update.Name,
                Status |-> IF update.Status # "" THEN update.Status ELSE old.Status,
                Port   |-> old.Port]
    IN [statuses |-> MapSet(st.statuses, update.Name, row),
        filters  |-> MapSet(st.filters, update.Name, TRUE)]

\* a faulty variant of applyStatus: an empty status is stored as it is
applyStatus_StoresEmpty(st, update) ==
    LET old == IF update.Name \in DOMAIN st.statuses THEN st.statuses[update.Name]
               ELSE [Name |-> "", Status |-> "", Port |-> 0]
        row == [Name |-> update.Name, Status |-> update.Status, Port |-> old.Port]
    IN [statuses |-> MapSet(st.statuses, update.Name, row),
        filters  |-> IF update.Name \in DOMAIN st.filters THEN st.filters
                     ELSE MapSet(st.filters, update.Name, TRUE)]

\* the body of drainStatuses for one update, on [statuses, filters]
applyStatus(st, update) ==
    LET old == IF update.Name \in DOMAIN st.statuses THEN st.statuses[update.Name]
               ELSE [Name |-> "", Status |-> "", Port |-> 0]
        row == [Name   |-> update.Name,
                Status |-> IF update.Status # "" THEN update.Status ELSE old.Status,
                Port   |-> old.Port]
    IN [statuses |-> MapSet(st.statuses, update.Name, row),
        filters  |-> IF update.Name \in DOMAIN st.filters THEN st.filters
                     ELSE MapSet(st.filters, update.Name, TRUE)]

RECURSIVE drainStatuses(_, _)
\* drainStatuses: every update queued on the channel `ch`
drainStatuses(st, ch) ==
    IF ch = <<>> THEN st ELSE drainStatuses(applyStatus(st, Head(ch)), Tail(ch))

\* sortedRows: the names of the rows, in name order
sortedRows(sts) == SelectSeq(NamesInOrder, LAMBDA n : n \in DOMAIN sts)

\* the rows left by the text filter (renderStatusPanel, maxSelection,
\* toggleSelectedFilter)
filteredRows(sts, text) ==
    IF text # <<>>
    THEN SelectSeq(sortedRows(sts), LAMBDA n : Contains(ToLower(Chars(n)), ToLower(text)))
    ELSE sortedRows(sts)

\* maxSelection
maxSelection(sts, text) ==
    IF DOMAIN sts = {} THEN -1
    ELSE IF Len(filteredRows(sts, text)) = 0 THEN -1
    ELSE Len(filteredRows(sts, text)) - 1

\* moveSelection: the new m.selected
moveSelection(sel, delta, sts, text) ==
    LET max == maxSelection(sts, text)
        moved == sel + delta
    IN IF max < 0 THEN 0
       ELSE IF moved < 0 THEN 0
       ELSE IF moved > max THEN max
       ELSE moved

\* toggleSelectedFilter: [selected, filters]
toggleSelectedFilter(sel, f, sts, text) ==
    LET rows == filteredRows(sts, text)
        s1 == IF sel < 0 THEN 0 ELSE sel
        s2 == IF s1 >= Len(rows) THEN Len(rows) - 1 ELSE s1
    IN IF Len(rows) = 0 THEN [selected |-> sel, filters |-> f]
       ELSE [selected |-> s2,
             filters  |-> MapSet(f, rows[s2 + 1], ~FilterGet(f, rows[s2 + 1]))]

\* a faulty variant of setAllFilters: every entry of the filter map is set,
\* also those of names without a row
setAllFilters_EveryEntry(f, sts, text, val) ==
    [k \in DOMAIN f \cup DOMAIN sts |-> val]

\* setAllFilters
setAllFilters(f, sts, text, val) ==
    [k \in DOMAIN f \cup DOMAIN sts |-> IF k \in DOMAIN sts THEN val ELSE f[k]]

\* NewModel: the status table of the console from the rows of the snapshot
NewModelStatuses(ms) ==
    [n \in DOMAIN ms |-> [Name |-> ms[n].Name, Status |-> ms[n].Status, Port |-> ms[n].Port]]


\* viewport.New(10, 10): the height of the log pane before the first resize
NewViewportHeight == 10

\* resize: the least height of the log pane
MinViewportHeight == 5

\* the viewport of the log pane (bubbles viewport.Model): its offset, its
\* height and the number of lines of log content it was last given
NewViewport == [YOffset |-> 0, Height |-> NewViewportHeight, visible |-> 0]

\* len(viewport.lines): strings.Split gives one line for the empty content
ViewLines(vp) == IF vp.visible = 0 THEN 1 ELSE vp.visible

maxYOffset(vp) == IF ViewLines(vp) - vp.Height > 0 THEN ViewLines(vp) - vp.Height ELSE 0

AtBottom(vp) == vp.YOffset >= maxYOffset(vp)

AtTop(vp) == vp.YOffset <= 0

SetYOffset(vp, n) ==
    [vp EXCEPT !.YOffset = IF n < 0 THEN 0 ELSE IF n > maxYOffset(vp) THEN maxYOffset(vp) ELSE n]

GotoBottom(vp) == SetYOffset(vp, maxYOffset(vp))

GotoTop(vp) == IF AtTop(vp) THEN vp ELSE SetYOffset(vp, 0)

LineDown(vp, n) == IF AtBottom(vp) THEN vp ELSE SetYOffset(vp, vp.YOffset + n)

LineUp(vp, n) == IF AtTop(vp) THEN vp ELSE SetYOffset(vp, vp.YOffset - n)

\* viewport.SetContent for a content of `visible` log lines
SetContent(vp, visible) ==
    LET v == [vp EXCEPT !.visible = visible]
    IN IF v.YOffset > ViewLines(v) - 1 THEN GotoBottom(v) ELSE v

\* the lines of the mouse wheel (viewport.MouseWheelDelta)
MouseWheelDelta == 3

\* renderViewport, the lines it keeps: all when no filter entry exists,
\* else those of the services whose flag is true
VisibleLogs(lg, f) ==
    IF DOMAIN f = {} THEN lg ELSE SelectSeq(lg, LAMBDA l : FilterGet(f, l.Service))

\* a faulty variant of renderViewport: the pane is never moved to the bottom
renderViewport_NoScroll(vp, lg, f, fol) ==
    SetContent(vp, Len(VisibleLogs(lg, f)))

\* renderViewport: the viewport after the render
renderViewport(vp, lg, f, fol) ==
    LET v == SetContent(vp, Len(VisibleLogs(lg, f)))
    IN IF fol THEN GotoBottom(v) ELSE v

\* the characters of every rendered log line ("[service] text") in the runs
\* of the model
LineChars == 2

\* len(content) for `visible` rendered lines joined by newlines
ContentLen(visible) == IF visible = 0 THEN 0 ELSE visible * LineChars + (visible - 1)

\* renderViewport slices content[:s], content[s:e] and content[e:] after it
\* has ordered s and e, raised s to 0 and lowered e to len(content): the
\* slice expressions panic when s is beyond the content
renderPanics(visible, selStart, selEnd) ==
    selStart # selEnd /\ Min(selStart, selEnd) > ContentLen(visible)

\* colorFor: the palette
Palette == <<"2", "3", "4", "5", "6", "9", "10", "11", "12", "13">>

\* a faulty variant of colorFor: the palette is entered one place too far
colorFor_SkipFirst(cols, service) ==
    IF service \in DOMAIN cols THEN [colors |-> cols, color |-> cols[service]]
    ELSE LET color == Palette[((Cardinality(DOMAIN cols) + 1) % Len(Palette)) + 1]
         IN [colors |-> MapSet(cols, service, color), color |-> color]

\* colorFor: [colors, color], the map afterwards and the colour returned
colorFor(cols, service) ==
    IF service \in DOMAIN cols THEN [colors |-> cols, color |-> cols[service]]
    ELSE LET color == Palette[(Cardinality(DOMAIN cols) % Len(Palette)) + 1]
         IN [colors |-> MapSet(cols, service, color), color |-> color]

\* the services of the lines `ls` that have no colour yet, in the order of
\* their first line
Uncoloured(cols, ls) ==
    LET S == {ls[i].Service : i \in 1..Len(ls)} \ DOMAIN cols
        idx == SortedSeq({CHOOSE i \in 1..Len(ls) :
                             ls[i].Service = n /\ \A j \in 1..(i - 1) : ls[j].Service # n : n \in S})
    IN [k \in 1..Len(idx) |-> ls[idx[k]].Service]

RECURSIVE colorAll(_, _)
colorAll(cols, names) ==
    IF names = <<>> THEN cols ELSE colorAll(colorFor(cols, Head(names)).colors, Tail(names))

\* renderViewport, the colours: colorFor is called for every line kept, in
\* order; only the first line of a service without a colour changes the map
renderColors(cols, lg, f) == colorAll(cols, Uncoloured(cols, VisibleLogs(lg, f)))

\* the tick on which a statistics fetch is started: tickCount%30 == 1
FetchEvery == 30

\* the ticks that fit in the timeout of a fetch: 5 s, a tick being scheduled
\* 100 ms after the one before it has been handled
FetchTimeoutTicks == 50

\* the tick that started the id-th fetch
StartTick(id) == FetchEvery * (id - 1) + 1

\* NewModel: pgStatsCh is nil without a postgres URL, else make(chan, 1)
NilChan == [nil |-> TRUE, buf |-> <<>>]
NewPgChan == [nil |-> FALSE, buf |-> <<>>]

\* drainPgStats: the statistics shown after the channel has been emptied
drainPgStats(ch, stats) ==
    IF ch.nil \/ ch.buf = <<>> THEN stats ELSE ch.buf[Len(ch.buf)]

\* the goroutine of a fetch: select { case pgStatsCh <- s: default: }
offerPgStats(ch, s) ==
    IF Len(ch.buf) < 1 THEN [ch EXCEPT !.buf = Append(@, s)] ELSE ch

\* resize for a window of height h: the viewport
resize(vp, h) ==
    [vp EXCEPT !.Height = IF h - 5 < MinViewportHeight THEN MinViewportHeight ELSE h - 5]

\* a faulty variant of copyLogSelection: it reports a copy also when nothing
\* is selected
copyLogSelection_Always(m) == TRUE

\* copyLogSelection: there was a selection and the copy was attempted
copyLogSelection(m) == m.viewport.visible > 0 /\ m.logSelStart # m.logSelEnd

\* copyLogSelection: s and e once ordered and clamped (s to 0, e to the
\* length of lastLogContent)
copyRange(m) ==
    LET lo == Min(m.logSelStart, m.logSelEnd)
        hi == IF m.logSelStart > m.logSelEnd THEN m.logSelStart ELSE m.logSelEnd
        len == ContentLen(m.viewport.visible)
    IN <<IF lo < 0 THEN 0 ELSE lo, IF hi > len THEN len ELSE hi>>

\* copyLogSelection: lastLogContent[s:e] panics when s is beyond e
copyPanics(m) == copyLogSelection(m) /\ copyRange(m)[1] > copyRange(m)[2]

\* copyLogSelection: the clipboard afterwards; an empty selected text is
\* not written
copied(m) == IF copyRange(m)[1] < copyRange(m)[2] THEN copyRange(m) ELSE m.clipboard

\* a Model just created by NewModel: follow, viewport and log selection
NewView ==
    /\ follow = TRUE
    /\ viewport = NewViewport
    /\ logSelStart = 0
    /\ logSelEnd = 0
    /\ logSelecting = FALSE
    /\ colors = EmptyMap
    /\ clipboard = <<>>
    /\ pgStatsCh = NilChan
    /\ pgStats = 0
    /\ tickCount = 0
    /\ fetching = {}
    /\ fetched = <<>>

\* the fields of the Model that Update reads and writes on a key
\* (quit: Update returned tea.Quit)
ModelOf ==
    [statuses |-> statuses, filters |-> filters, interrupted |-> interrupted,
     focusStatus |-> focusStatus, filterMode |-> filterMode, filterText |-> filterText,
     selected |-> selected, follow |-> follow, viewport |-> viewport,
     logSelStart |-> logSelStart, logSelEnd |-> logSelEnd, clipboard |-> clipboard,
     quit |-> FALSE, panic |-> FALSE]

\* the keys whose msg.Type is tea.KeyRunes
RuneKeys == {"q", "/", "a", "n", "j", "k", "g", "G", "W", "f", " "}

\* Model.Update for a tea.KeyMsg whose String() is `key`
UpdateKey(m, key) ==
    IF m.filterMode
    THEN CASE key = "esc"       -> [m EXCEPT !.filterMode = FALSE, !.filterText = <<>>]
           [] key = "enter"     -> [m EXCEPT !.filterMode = FALSE]
           [] key = "backspace" -> IF Len(m.filterText) > 0
                                   THEN [m EXCEPT !.filterText = SubSeq(@, 1, Len(@) - 1)]
                                   ELSE m
           [] OTHER             -> IF key \in RuneKeys
                                   THEN [m EXCEPT !.filterText = Append(@, key)]
                                   ELSE m
    ELSE CASE key = "ctrl+c" -> IF ~m.focusStatus /\ copyLogSelection(m)
                                THEN IF copyPanics(m) THEN [m EXCEPT !.panic = TRUE]
                                     ELSE [m EXCEPT !.clipboard = copied(m)]
                                ELSE [m EXCEPT !.interrupted = TRUE, !.quit = TRUE]
           [] key = "q"   -> [m EXCEPT !.interrupted = TRUE, !.quit = TRUE]
           [] key = "tab" -> [m EXCEPT !.focusStatus = ~@]
           [] key = "/"   -> [m EXCEPT !.focusStatus = TRUE, !.filterMode = TRUE]
           [] key = " "   -> IF m.focusStatus
                             THEN LET t == toggleSelectedFilter(m.selected, m.filters, m.statuses, m.filterText)
                                  IN [m EXCEPT !.selected = t.selected, !.filters = t.filters]
                             ELSE m
           [] key = "a"   -> IF m.focusStatus
                             THEN [m EXCEPT !.filters = setAllFilters(m.filters, m.statuses, m.filterText, TRUE)]
                             ELSE m
           [] key = "n"   -> IF m.focusStatus
                             THEN [m EXCEPT !.filters = setAllFilters(m.filters, m.statuses, m.filterText, FALSE)]
                             ELSE m
           [] key = "f"   -> IF ~m.focusStatus
                             THEN [m EXCEPT !.follow = ~@,
                                            !.viewport = IF ~m.follow THEN GotoBottom(@) ELSE @]
                             ELSE m
           [] key = "j"   -> IF m.focusStatus
                             THEN [m EXCEPT !.selected = moveSelection(m.selected, 1, m.statuses, m.filterText)]
                             ELSE [m EXCEPT !.viewport = LineDown(@, 1),
                                            !.follow = AtBottom(LineDown(m.viewport, 1))]
           [] key = "k"   -> IF m.focusStatus
                             THEN [m EXCEPT !.selected = moveSelection(m.selected, -1, m.statuses, m.filterText)]
                             ELSE [m EXCEPT !.viewport = LineUp(@, 1),
                                            !.follow = AtBottom(LineUp(m.viewport, 1))]
           [] key = "g"   -> IF m.focusStatus THEN [m EXCEPT !.selected = 0]
                             ELSE [m EXCEPT !.viewport = GotoTop(@), !.follow = FALSE]
           [] key = "G"   -> IF m.focusStatus
                             THEN [m EXCEPT !.selected = maxSelection(m.statuses, m.filterText)]
                             ELSE [m EXCEPT !.viewport = GotoBottom(@), !.follow = TRUE]
           [] key = "pgup"   -> [m EXCEPT !.viewport = LineUp(@, m.viewport.Height),
                                          !.follow = AtBottom(LineUp(m.viewport, m.viewport.Height))]
           [] key = "pgdown" -> [m EXCEPT !.viewport = LineDown(@, m.viewport.Height),
                                          !.follow = AtBottom(LineDown(m.viewport, m.viewport.Height))]
           [] key = "home"   -> [m EXCEPT !.follow = AtBottom(m.viewport)]
           [] OTHER       -> m

\* the longest filter text typed in a run of the model
MaxFilterLen == 1

\* the keys pressed in a run of the model
Keys == {"q", "tab", "/", "esc", "enter", "backspace", " ", "a", "n", "j", "k", "W"}

\* the runes typed as filter text in a run of the model
TypedRunes == {"a", "W"}

\* Up, lines 101-111: Up returns (detached) or creates and runs the console
UpRunConsole ==
    /\ pc = "begin"
    /\ next > Len(order)
    /\ IF up.detached
       THEN /\ pc' = "returned"
            /\ UNCHANGED <<console, statuses>>
       ELSE /\ pc' = "console"
            /\ console' = "idle"
            /\ statuses' = NewModelStatuses(mstatuses)
    /\ UNCHANGED <<osVars, up, services, mstatuses, reports, upErr, order, next, proc, chVars,
                   logs, filters, interrupted, focusStatus, filterMode, filterText, selected, envSent, viewVars, stops, auxVars>>

\* the ticks of a run of the model with the statistics enabled
MaxTicks == 61

\* tickMsg, first part: drainLogs
TickLogs ==
    /\ console = "idle"
    /\ pgStatsCh.nil \/ tickCount < MaxTicks
    /\ \A id \in fetching : tickCount + 1 < StartTick(id) + FetchTimeoutTicks
    /\ LET st == drainLogs([logs |-> logs, filters |-> filters], logCh)
       IN /\ logs' = st.logs
          /\ filters' = st.filters
    /\ logCh' = <<>>
    /\ console' = "tick"
    /\ UNCHANGED <<osVars, upVars, proc, statusCh, statuses, interrupted, focusStatus, filterMode,
                   filterText, selected, envSent, viewVars, stops, auxVars>>

\* tickMsg, second part: drainStatuses, drainPgStats, the start of a fetch
\* on every 30th tick, renderViewport, and the next tick is scheduled.  A
\* render that slices beyond the content panics and ends the console.
TickStatuses ==
    /\ console = "tick"
    /\ LET st == drainStatuses([statuses |-> statuses, filters |-> filters], statusCh)
           shown == Len(VisibleLogs(logs, st.filters))
       IN /\ statuses' = st.statuses
          /\ filters' = st.filters
          /\ colors' = renderColors(colors, logs, st.filters)
          /\ IF renderPanics(shown, logSelStart, logSelEnd)
             THEN /\ console' = "panicked"
                  /\ UNCHANGED viewport
             ELSE /\ console' = "idle"
                  /\ viewport' = renderViewport(viewport, logs, st.filters, follow)
    /\ statusCh' = <<>>
    /\ pgStats' = drainPgStats(pgStatsCh, pgStats)
    /\ pgStatsCh' = [pgStatsCh EXCEPT !.buf = <<>>]
    /\ tickCount' = IF pgStatsCh.nil THEN tickCount ELSE tickCount + 1
    /\ fetching' = IF ~pgStatsCh.nil /\ tickCount' % FetchEvery = 1
                   THEN fetching \cup {Cardinality(fetching) + Len(fetched) + 1}
                   ELSE fetching
    /\ UNCHANGED <<osVars, upVars, proc, logCh, logs, interrupted, focusStatus, filterMode,
                   filterText, selected, envSent, follow, logSelStart, logSelEnd, logSelecting,
                   clipboard, fetched, stops, auxVars>>

\* postgresstats.Fetch of fetch `id` returns and its goroutine offers the
\* result to pgStatsCh
FetchDone(id) ==
    /\ id \in fetching
    /\ fetching' = fetching \ {id}
    /\ fetched' = Append(fetched, id)
    /\ pgStatsCh' = offerPgStats(pgStatsCh, id)
    /\ UNCHANGED <<osVars, upVars, proc, chVars, uiVars, envSent, follow, viewport, logSelStart,
                   logSelEnd, logSelecting, colors, clipboard, pgStats, tickCount, stops, auxVars>>

\* a faulty variant of KeyPress: tab toggles the focus also while the filter
\* text is typed
KeyPress_TabWhileTyping(key, typed) ==
    /\ console = "idle"
    /\ filterMode /\ key \in RuneKeys => key \in typed /\ Len(filterText) < MaxFilterLen
    /\ LET m == IF key = "tab" THEN [ModelOf EXCEPT !.focusStatus = ~@] ELSE UpdateKey(ModelOf, key)
       IN /\ statuses' = m.statuses
          /\ filters' = m.filters
          /\ interrupted' = m.interrupted
          /\ focusStatus' = m.focusStatus
          /\ filterMode' = m.filterMode
          /\ filterText' = m.filterText
          /\ selected' = m.selected
          /\ follow' = m.follow
          /\ viewport' = m.viewport
          /\ clipboard' = m.clipboard
          /\ console' = IF m.panic THEN "panicked" ELSE IF m.quit THEN "quit" ELSE "idle"
    /\ UNCHANGED <<osVars, upVars, proc, chVars, logs, envSent, logSelStart, logSelEnd, logSelecting,
                   colors, pgVars, stops, auxVars>>

\* a tea.KeyMsg is handled by Update; the runes typed as filter text are
\* those of `typed`, up to MaxFilterLen of them
\* a faulty variant of KeyPress: `/` starts the typing of the filter text
\* and leaves the focus where it is
KeyPress_SlashKeepsFocus(key, typed) ==
    /\ console = "idle"
    /\ filterMode /\ key \in RuneKeys => key \in typed /\ Len(filterText) < MaxFilterLen
    /\ LET m == IF key = "/" /\ ~filterMode THEN [ModelOf EXCEPT !.filterMode = TRUE]
                ELSE UpdateKey(ModelOf, key)
       IN /\ statuses' = m.statuses
          /\ filters' = m.filters
          /\ interrupted' = m.interrupted
          /\ focusStatus' = m.focusStatus
          /\ filterMode' = m.filterMode
          /\ filterText' = m.filterText
          /\ selected' = m.selected
          /\ follow' = m.follow
          /\ viewport' = m.viewport
          /\ clipboard' = m.clipboard
          /\ console' = IF m.panic THEN "panicked" ELSE IF m.quit THEN "quit" ELSE "idle"
    /\ UNCHANGED <<osVars, upVars, proc, chVars, logs, envSent, logSelStart, logSelEnd, logSelecting,
                   colors, pgVars, stops, auxVars>>

KeyPress(key, typed) ==
    /\ console = "idle"
    /\ filterMode /\ key \in RuneKeys => key \in typed /\ Len(filterText) < MaxFilterLen
    /\ LET m == UpdateKey(ModelOf, key)
       IN /\ statuses' = m.statuses
          /\ filters' = m.filters
          /\ interrupted' = m.interrupted
          /\ focusStatus' = m.focusStatus
          /\ filterMode' = m.filterMode
          /\ filterText' = m.filterText
          /\ selected' = m.selected
          /\ follow' = m.follow
          /\ viewport' = m.viewport
          /\ clipboard' = m.clipboard
          /\ console' = IF m.panic THEN "panicked" ELSE IF m.quit THEN "quit" ELSE "idle"
    /\ UNCHANGED <<osVars, upVars, proc, chVars, logs, envSent, logSelStart, logSelEnd, logSelecting,
                   colors, pgVars, stops, auxVars>>

\* a tea.KeyMsg is handled by Update
KeyMsg(key) == KeyPress(key, TypedRunes)

\* Up, lines 112-118: the console has ended
UpAfterConsole ==
    /\ pc = "console"
    /\ console = "quit"
    /\ pc' = IF interrupted THEN "stop" ELSE "returned"
    /\ UNCHANGED <<osVars, up, services, mstatuses, reports, upErr, order, next, proc, chVars,
                   uiVars, envSent, viewVars, stops, auxVars>>

\* the offsets into the rendered log text a mouse position can yield
SelOffsets == 0..1

\* a tea.MouseMsg is handled by Update: a left press, a motion or a left
\* release at offset `off` of the log text, or a turn of the wheel
MouseMsg(kind, off) ==
    /\ console = "idle"
    /\ ~focusStatus
    /\ kind \in {"press", "motion", "release"} => viewport.visible > 0 /\ off <= ContentLen(viewport.visible)
    /\ logSelStart' = IF kind = "press" THEN off ELSE logSelStart
    /\ logSelEnd' = IF kind = "press" \/ (kind = "motion" /\ logSelecting) THEN off ELSE logSelEnd
    /\ logSelecting' = IF kind = "press" THEN TRUE
                       ELSE IF kind = "release" THEN FALSE ELSE logSelecting
    /\ viewport' = CASE kind = "wheelup"   -> LineUp(viewport, MouseWheelDelta)
                     [] kind = "wheeldown" -> LineDown(viewport, MouseWheelDelta)
                     [] OTHER              -> viewport
    /\ follow' = IF kind \in {"wheelup", "wheeldown"} THEN AtBottom(viewport') ELSE follow
    /\ UNCHANGED <<osVars, upVars, proc, chVars, uiVars, envSent, colors, clipboard, pgVars, stops, auxVars>>

\* a tea.WindowSizeMsg is handled by Update: the window is `h` lines high
WindowSizeMsg(h) ==
    /\ console = "idle"
    /\ viewport' = resize(viewport, h)
    /\ UNCHANGED <<osVars, upVars, proc, chVars, uiVars, envSent, follow, logSelStart, logSelEnd,
                   logSelecting, colors, clipboard, pgVars, stops, auxVars>>

\* Up, lines 112-114: the console program ends with an error
UpConsoleError ==
    /\ pc = "console"
    /\ console \in {"idle", "tick"}
    /\ console' = "failed"
    /\ upErr' = "console"
    /\ pc' = "returned"
    /\ UNCHANGED <<osVars, up, services, mstatuses, reports, order, next, proc, chVars, logs,
                   statuses, filters, interrupted, focusStatus, filterMode, filterText, selected,
                   envSent, viewVars, stops, auxVars>>


(***************************************************************************)
(* Shutdown Coordinator (Manager.Stop, detector.go, killProcess)           *)
(***************************************************************************)
\* pidForPort: the first pid `lsof -t` lists, 0 when it fails or lists none
pidForPort(L, E, port) ==
    LET out == LsofPids(L, E, port)
    IN IF out.err \/ out.pids = <<>> THEN 0 ELSE out.pids[1]

\* DetectRunningServices: the services of the configuration that declare a
\* port, when a process owns the port
DetectRunningServices(L, E) ==
    LET found == {n \in DOMAIN Services :
                    Services[n].Port > 0 /\ pidForPort(L, E, Services[n].Port) > 0}
    IN [n \in found |-> [Name |-> n, Port |-> Services[n].Port,
                         PID  |-> pidForPort(L, E, Services[n].Port), Type |-> Services[n].Type]]

\* killProcess: the group of the pid when Getpgid answers (the process is
\* alive; a process started by floppy leads its own group), else the pid
killProcess(st, pid, alive) ==
    IF pid <= 0 THEN st
    ELSE LET target == IF pid \in alive THEN -pid ELSE pid
         IN [listeners |-> Reap(st.listeners, pid),
             signals   |-> st.signals \o <<[pid |-> target, sig |-> "SIGTERM"],
                                           [pid |-> target, sig |-> "SIGKILL"]>>]

RECURSIVE StopEach(_, _, _, _, _)
\* the loop of Stop over toStop; st is [listeners, signals, results]
StopEach(toStop, st, E, detected, alive) ==
    IF toStop = <<>> THEN st
    ELSE LET name == Head(toStop)
             svc  == SvcDef(name)
             os   == [listeners |-> st.listeners, signals |-> st.signals]
             done == IF svc.Port > 0 THEN killPort(os, E, svc.Port)
                     ELSE killProcess(os, detected[name].PID, alive)
         IN StopEach(Tail(toStop),
                     [listeners |-> done.listeners, signals |-> done.signals,
                      results   |-> Append(st.results, [name |-> name, line |-> "Stopped"])],
                     E, detected, alive)

\* Manager.Stop(names): [listeners, signals, results, err]; `ord` is the order
\* in which the map of the detected services is iterated
Stop(names, ord, L, E, sigs, alive) ==
    LET detected == DetectRunningServices(L, E)
        toStop   == IF names = <<>> THEN ord
                    ELSE SelectSeq(names, LAMBDA n : n \in DOMAIN detected)
    IN IF toStop = <<>>
       THEN [listeners |-> L, signals |-> sigs, err |-> "",
             results |-> <<[name |-> "", line |-> "No running services to stop"]>>]
       ELSE LET st == StopEach(toStop, [listeners |-> L, signals |-> sigs, results |-> <<>>],
                               E, detected, alive)
            IN [listeners |-> st.listeners, signals |-> st.signals, err |-> "",
                results |-> st.results]

\* the pids of the processes alive: those floppy started and the others
AlivePids ==
    {proc[n].pid : n \in {x \in DOMAIN proc : proc[x].state = "running"}}
    \cup UNION {listeners[p] : p \in DOMAIN listeners}

\* the process or group a forced kill was sent to, among the signals after
\* the first `k`
KilledAfter(sigs, k) ==
    {IF sigs[i].pid < 0 THEN -sigs[i].pid ELSE sigs[i].pid :
        i \in {j \in (k + 1)..Len(sigs) : sigs[j].sig = "SIGKILL"}}

\* a call of Stop(names), whole: the system and the processes after it, and
\* the record of the call
StopCall(names) ==
    \E ord \in Perms(DOMAIN DetectRunningServices(listeners, lsofErr)) :
       LET r == Stop(names, ord, listeners, lsofErr, signals, AlivePids)
       IN /\ listeners' = r.listeners
          /\ signals' = r.signals
          /\ proc' = [n \in DOMAIN proc |->
                        IF proc[n].state = "running"
                           /\ proc[n].pid \in KilledAfter(r.signals, Len(signals))
                        THEN [proc[n] EXCEPT !.state = "exited"] ELSE proc[n]]
          /\ stops' = Append(stops, [services |-> names, results |-> r.results, err |-> r.err])

\* a faulty variant of UpStop: Stop is given the names of the command line
UpStop_RawNames ==
    /\ pc = "stop"
    /\ StopCall(up.names)
    /\ pc' = "returned"
    /\ UNCHANGED <<lsofErr, up, services, mstatuses, reports, upErr, order, next, chVars, uiVars,
                   envSent, viewVars, auxVars>>

\* Up, lines 115-118: the console was interrupted, Stop(services)
UpStop ==
    /\ pc = "stop"
    /\ StopCall(services)
    /\ pc' = "returned"
    /\ UNCHANGED <<lsofErr, up, services, mstatuses, reports, upErr, order, next, chVars, uiVars,
                   envSent, viewVars, auxVars>>

\* `floppy stop [service ...]` or `floppy down`, run once after a detached Up
CmdStop(names) ==
    /\ pc = "returned"
    /\ up.detached
    /\ stops = <<>>
    /\ StopCall(names)
    /\ UNCHANGED <<lsofErr, upVars, chVars, uiVars, envSent, viewVars, auxVars>>

\* a process floppy did not start binds a port that is free
ForeignListen(pid, port) ==
    /\ listeners[port] = {}
    /\ \A p \in DOMAIN listeners : pid \notin listeners[p]
    /\ listeners' = [listeners EXCEPT ![port] = {pid}]
    /\ UNCHANGED <<lsofErr, signals, upVars, proc, chVars, uiVars, envSent, viewVars, stops, auxVars>>


(***************************************************************************)
(* Process-state store and fingerprint (manager.go, lines 966-1067)        *)
(* A string is the sequence of its characters.                             *)
(***************************************************************************)
\* unicode.IsSpace, on the characters used here
IsSpace(c) == c \in {" ", "\t", "\n", "\r"}

RECURSIVE TrimLeft(_)
TrimLeft(str) ==
    IF str # <<>> /\ IsSpace(Head(str)) THEN TrimLeft(Tail(str)) ELSE str

RECURSIVE TrimRight(_)
TrimRight(str) ==
    IF str # <<>> /\ IsSpace(str[Len(str)]) THEN TrimRight(SubSeq(str, 1, Len(str) - 1)) ELSE str

\* strings.TrimSpace
TrimSpace(str) == TrimRight(TrimLeft(str))

\* a faulty variant of commandContainsExpected: empty strings are not refused
commandContainsExpected_EmptyMatches(actual, expected) ==
    Contains(TrimSpace(actual), TrimSpace(expected))

\* commandContainsExpected
commandContainsExpected(actual, expected) ==
    LET a == TrimSpace(actual)
        e == TrimSpace(expected)
    IN IF a = <<>> \/ e = <<>> THEN FALSE ELSE Contains(a, e)

\* the call commandContainsExpected(call.actual, call.expected) is made
CallCommandContainsExpected ==
    /\ call.fn = "commandContainsExpected"
    /\ ~call.done
    /\ call' = [call EXCEPT !.done = TRUE,
                            !.result = commandContainsExpected(call.actual, call.expected)]
    /\ UNCHANGED <<osVars, upVars, proc, chVars, uiVars, envSent, viewVars, stops, launched>>

\* encoding/json, a string: the quote and the backslash are escaped
EscapeChar(c) == IF c \in {"\"", "\\"} THEN <<"\\", c>> ELSE <<c>>

Escape(str) == Flatten([i \in 1..Len(str) |-> EscapeChar(str[i])])

RECURSIVE Unescape(_)
\* a faulty variant of Unescape: the text is taken as it is written
Unescape_Raw(str) == str

\* encoding/json, a string read back
Unescape(str) ==
    IF str = <<>> THEN <<>>
    ELSE IF Head(str) = "\\" /\ Len(str) >= 2
         THEN <<str[2]>> \o Unescape(SubSeq(str, 3, Len(str)))
         ELSE <<Head(str)>> \o Unescape(Tail(str))

DigitChars == <<"0", "1", "2", "3", "4", "5", "6", "7", "8", "9">>

RECURSIVE NatDigits(_)
NatDigits(n) ==
    IF n < 10 THEN <<DigitChars[n + 1]>>
    ELSE NatDigits(n \div 10) \o <<DigitChars[(n % 10) + 1]>>

\* an int written in decimal
Itoa(n) == IF n < 0 THEN <<"-">> \o NatDigits(-n) ELSE NatDigits(n)

RECURSIVE NatValue(_)
NatValue(ds) ==
    IF ds = <<>> THEN 0
    ELSE NatValue(SubSeq(ds, 1, Len(ds) - 1)) * 10
         + (CHOOSE d \in 0..9 : DigitChars[d + 1] = ds[Len(ds)])

\* an int read from decimal
Atoi(ds) == IF ds # <<>> /\ Head(ds) = "-" THEN -NatValue(Tail(ds)) ELSE NatValue(ds)

\* the tokens of a JSON document: the name of a field, a string, a number
NameTok(f) == [t |-> "name", v |-> <<f>>]
StrTok(str) == [t |-> "str", v |-> Escape(str)]
NumTok(n) == [t |-> "num", v |-> Itoa(n)]

\* json.Marshal of a ProcessEntry, by its json tags
MarshalEntry(e) ==
    <<NameTok("service"), StrTok(e.Service), NameTok("pid"), NumTok(e.PID),
      NameTok("pgid"), NumTok(e.PGID), NameTok("cwd"), StrTok(e.Cwd),
      NameTok("cmdline"), StrTok(e.Cmdline)>>

\* the tokens one entry of the map takes: its key and its five fields
EntryTokens == 1 + Len(MarshalEntry([Service |-> <<>>, PID |-> 0, PGID |-> 0, Cwd |-> <<>>, Cmdline |-> <<>>]))

\* the order of two characters, and of two strings (bytes compared in turn)
CharOrder == <<"\"", "\\", "a", "i", "p", "w">>

CharRank(c) == CHOOSE i \in 1..Len(CharOrder) : CharOrder[i] = c

RECURSIVE StrLess(_, _)
StrLess(a, b) ==
    IF b = <<>> THEN FALSE
    ELSE IF a = <<>> THEN TRUE
    ELSE IF Head(a) # Head(b) THEN CharRank(Head(a)) < CharRank(Head(b))
    ELSE StrLess(Tail(a), Tail(b))

\* json.Marshal of a map: the keys in sorted order
SortedKeys(S) ==
    CHOOSE q \in Perms(S) : \A i, j \in 1..Len(q) : i < j => StrLess(q[i], q[j])

\* a ProcessState is [nil, Entries]: `nil` tells a nil map from an empty one
NilState == [nil |-> TRUE, Entries |-> EmptyMap]

\* state.Entries after `if state.Entries == nil { ... = map[string]ProcessEntry{} }`
EntriesOrEmpty(state) == IF state.nil THEN EmptyMap ELSE state.Entries

\* json.MarshalIndent of a ProcessState whose Entries are not nil
MarshalState(entries) ==
    LET keys == SortedKeys(DOMAIN entries)
    IN Flatten([i \in 1..Len(keys) |-> <<StrTok(keys[i])>> \o MarshalEntry(entries[keys[i]])])

\* the value of field `f` among the tokens `toks` of one entry
FieldOf(toks, f) ==
    toks[1 + CHOOSE i \in 1..(Len(toks) - 1) : toks[i] = NameTok(f)]

\* json.Unmarshal into a ProcessState
UnmarshalState(doc) ==
    LET n       == Len(doc) \div EntryTokens
        toks(i) == SubSeq(doc, (i - 1) * EntryTokens + 1, i * EntryTokens)
        key(i)  == Unescape(toks(i)[1].v)
        ent(i)  == LET body == Tail(toks(i))
                   IN [Service |-> Unescape(FieldOf(body, "service").v),
                       PID     |-> Atoi(FieldOf(body, "pid").v),
                       PGID    |-> Atoi(FieldOf(body, "pgid").v),
                       Cwd     |-> Unescape(FieldOf(body, "cwd").v),
                       Cmdline |-> Unescape(FieldOf(body, "cmdline").v)]
    IN [nil |-> FALSE,
        Entries |-> [k \in {key(i) : i \in 1..n} |-> ent(CHOOSE i \in 1..n : key(i) = k)]]

\* no file at the store path
NoFile == [absent |-> TRUE, doc |-> <<>>]

\* saveProcessState: [err, file]; `fsOK` is whether MkdirAll and WriteFile
\* succeed
saveProcessState(state, file, fsOK) ==
    IF ~fsOK THEN [err |-> "io", file |-> file]
    ELSE [err |-> "", file |-> [absent |-> FALSE, doc |-> MarshalState(EntriesOrEmpty(state))]]

\* loadProcessState: a missing file gives the empty state
loadProcessState(file) ==
    IF file.absent THEN [nil |-> FALSE, Entries |-> EmptyMap] ELSE UnmarshalState(file.doc)

\* saveProcessState(call.state) is called
CallSave ==
    /\ call.fn = "store"
    /\ call.step = "init"
    /\ LET r == saveProcessState(call.state, call.file, call.fsOK)
       IN call' = [call EXCEPT !.step = "saved", !.err = r.err, !.file = r.file]
    /\ UNCHANGED <<osVars, upVars, proc, chVars, uiVars, envSent, viewVars, stops, launched>>

\* then loadProcessState() is called, with the same store path
CallLoad ==
    /\ call.fn = "store"
    /\ call.step = "saved"
    /\ call' = [call EXCEPT !.step = "loaded", !.loaded = loadProcessState(call.file)]
    /\ UNCHANGED <<osVars, upVars, proc, chVars, uiVars, envSent, viewVars, stops, launched>>


(***************************************************************************)
(* Producers of the console taken alone: any StatusUpdate and any LogLine  *)
(* a launcher, reader or waiter can send                                   *)
(***************************************************************************)
\* the most messages the producers send in a run of the console alone
MaxMsgs == 1

EnvUpdates ==
    {[Name |-> "api", Status |-> "running", PID |-> 101],
     [Name |-> "api", Status |-> "", PID |-> 0],
     [Name |-> "dkr", Status |-> "stopped", PID |-> 0]}

EnvLines ==
    [Service : {"api", ""}, Text : {<<"stdout", 1>>}]

EnvStatus(u) ==
    /\ pc = "console"
    /\ envSent < MaxMsgs
    /\ Len(statusCh) < StatusChCap
    /\ statusCh' = Append(statusCh, u)
    /\ envSent' = envSent + 1
    /\ UNCHANGED <<osVars, upVars, proc, logCh, uiVars, viewVars, stops, auxVars>>

EnvLog(l) ==
    /\ pc = "console"
    /\ envSent < MaxMsgs
    /\ Len(logCh) < LogChCap
    /\ logCh' = Append(logCh, l)
    /\ envSent' = envSent + 1
    /\ UNCHANGED <<osVars, upVars, proc, statusCh, uiVars, viewVars, stops, auxVars>>

(***************************************************************************)
(* Specifications                                                          *)
(***************************************************************************)
Ports == {8000, 3000, 3001, ViteDefaultWSPort}

\* processes of the system that floppy did not start
ForeignPids == {901, 902}

StartingRows(svcs) ==
    [n \in Range(svcs) |->
        [Name |-> n, Type |-> SvcDef(n).Type, Port |-> SvcDef(n).Port, Status |-> "starting"]]

\* the state of a Manager and of a console just constructed
FreshManager ==
    /\ signals = <<>>
    /\ services = <<>>
    /\ mstatuses = [n \in {} |-> 0]
    /\ reports = <<>>
    /\ upErr = ""
    /\ order = <<>>
    /\ next = 1
    /\ proc = [n \in DOMAIN Services |-> NoProc]
    /\ statusCh = <<>>
    /\ logCh = <<>>
    /\ logs = <<>>
    /\ statuses = [n \in {} |-> 0]
    /\ filters = EmptyMap
    /\ interrupted = FALSE
    /\ focusStatus = FALSE
    /\ filterMode = FALSE
    /\ filterText = <<>>
    /\ selected = 0
    /\ envSent = 0
    /\ NewView
    /\ stops = <<>>
    /\ launched = <<>>

\* the same, no function being called on its own
Fresh == FreshManager /\ call = NoCall

\* a process that calls one function of the package: the call is `c`
InitCall(c) ==
    /\ FreshManager
    /\ pc = "call"
    /\ console = "off"
    /\ up = [names |-> <<>>, detached |-> FALSE, force |-> FALSE, noPTY |-> FALSE]
    /\ listeners = [p \in Ports |-> {}]
    /\ lsofErr = {}
    /\ call = c

\* the command lines `floppy up` of the runs of Up with its tasks
UpNames == {<<"api">>, <<"wrk", "dkr">>, <<"empty">>}

\* Up with the launcher, the processes, their tasks and the console
UpRuns ==
    [names : UpNames, detached : BOOLEAN, force : {FALSE}, noPTY : BOOLEAN,
     busy : {{}}, err : {{}}]
    \cup [names : {<<"front">>}, detached : {FALSE}, force : {FALSE}, noPTY : {FALSE},
          busy : {{}}, err : {{}}]
    \cup [names : {<<"api">>}, detached : {FALSE}, force : BOOLEAN, noPTY : {FALSE},
          busy : {{8000}}, err : {{}, {8000}}]

\* a Manager just constructed, the arguments of Up and the state of the ports
InitUp(runs) ==
    /\ Fresh
    /\ pc = "enter"
    /\ console = "off"
    /\ \E r \in runs :
          /\ up = [names |-> r.names, detached |-> r.detached, force |-> r.force, noPTY |-> r.noPTY]
          /\ listeners = [p \in Ports |-> IF p \in r.busy THEN {901} ELSE {}]
          /\ lsofErr = r.err

Init == InitUp(UpRuns)

Next ==
    \/ UpEnter
    \/ UpValidate
    \/ LaunchBegin
    \/ LaunchWarn
    \/ LaunchRunning
    \/ LaunchError
    \/ LaunchErrLog
    \/ UpRunConsole
    \/ UpAfterConsole
    \/ \E n \in DOMAIN Services, st \in Streams : ProcWrite(n, st)
    \/ \E n \in DOMAIN Services : ProcExit(n)
    \/ \E n \in DOMAIN Services, st \in Streams : ReaderForward(n, st)
    \/ \E n \in DOMAIN Services, st \in Streams : ReaderEOF(n, st)
    \/ \E n \in DOMAIN Services : WaiterStopped(n)
    \/ TickLogs
    \/ TickStatuses
    \/ KeyMsg("q")
    \/ UpStop

Spec == Init /\ [][Next]_vars


\* the runs of `floppy up` in a row, in the runs of the port resolver
MaxRuns == 2

\* `floppy up` is run again with the same arguments after a failed run: a new
\* process, a new Manager; the terminal keeps what the earlier run printed
UpAgain ==
    /\ pc = "returned"
    /\ upErr # ""
    /\ Len(reports) < MaxRuns
    /\ pc' = "enter"
    /\ upErr' = ""
    /\ services' = <<>>
    /\ mstatuses' = [n \in {} |-> 0]
    /\ UNCHANGED <<osVars, up, reports, order, next, proc, chVars, uiVars, envSent, viewVars, stops, auxVars>>

\* the runs of Up of the port resolver; the ports are free, owned by one or
\* two processes or not probeable, at most three of the four owned at once
PortRuns ==
    [names : {<<"api">>, <<"front">>, <<"wrk">>, <<"web", "dkr">>, <<"api", "dkr">>, <<"web", "adm">>},
     force : BOOLEAN]

InitPorts ==
    /\ Fresh
    /\ pc = "enter"
    /\ console = "off"
    /\ \E r \in PortRuns :
          up = [names |-> r.names, detached |-> FALSE, force |-> r.force, noPTY |-> FALSE]
    /\ listeners \in [Ports -> {{}, {901}, {901, 902}}]
    /\ listeners[3001] \subseteq {901}
    /\ listeners[ViteDefaultWSPort] \subseteq {901}
    /\ Cardinality({p \in Ports : listeners[p] # {}}) < Cardinality(Ports)
    /\ lsofErr \in SUBSET {8000, 3000}

\* Up taken up to the start of the console: no process writes or exits
NextPorts ==
    \/ UpEnter
    \/ UpValidate
    \/ UpAgain
    \/ LaunchBegin
    \/ LaunchWarn
    \/ LaunchRunning
    \/ LaunchError
    \/ LaunchErrLog
    \/ UpRunConsole

SpecPorts == InitPorts /\ [][NextPorts]_vars

\* the console taken alone, just created by NewModel for a batch of services
InitConsole ==
    /\ pc = "console"
    /\ console = "idle"
    /\ up = [names |-> <<>>, detached |-> FALSE, force |-> FALSE, noPTY |-> FALSE]
    /\ listeners = [p \in Ports |-> {}]
    /\ lsofErr = {}
    /\ \E svcs \in {<<"api", "web", "wrk">>} :
          /\ services = svcs
          /\ order = SelectSeq(svcs, LAMBDA n : SvcDef(n).Type # "portal")
                     \o SelectSeq(svcs, LAMBDA n : SvcDef(n).Type = "portal")
          /\ next = Len(svcs) + 1
          /\ mstatuses = StartingRows(svcs)
          /\ statuses = NewModelStatuses(StartingRows(svcs))
    /\ signals = <<>> /\ reports = <<>> /\ upErr = ""
    /\ proc = [n \in DOMAIN Services |-> NoProc]
    /\ statusCh = <<>> /\ logCh = <<>> /\ logs = <<>> /\ filters = EmptyMap
    /\ interrupted = FALSE /\ focusStatus = FALSE /\ filterMode = FALSE
    /\ filterText = <<>> /\ selected = 0 /\ envSent = 0
    /\ NewView
    /\ stops = <<>>
    /\ launched = LaunchTrace(order)
    /\ call = NoCall

NextConsole ==
    \/ TickLogs
    \/ TickStatuses
    \/ \E key \in Keys : KeyMsg(key)
    \/ \E u \in EnvUpdates : EnvStatus(u)
    \/ \E l \in EnvLines : EnvLog(l)

SpecConsole == InitConsole /\ [][NextConsole]_vars


\* the lines that arrive beyond the capacity of the log buffer, in the runs
\* of the log buffer
RingExtra == 3

\* the most lines queued on logCh between two ticks, in the runs of the log
\* buffer
RingPending == 2

\* the services that write, in turn, in the runs of the log buffer
RingServices == <<"api", "", "web">>

\* the k-th line to arrive on logCh
RingLine(k) ==
    [Service |-> RingServices[((k - 1) % Len(RingServices)) + 1], Text |-> <<"stdout", k>>]

\* the lines a burst of output queues on logCh between two ticks, in the
\* runs of the log buffer
RingBurst == 10

\* the lines envSent + 1 .. envSent + k, in the order of arrival
RingLines(k) == [i \in 1..k |-> RingLine(envSent + i)]

\* the reader tasks send the next k lines on logCh (envSent lines sent so
\* far): one line, or a burst into the empty channel
RingLog(k) ==
    /\ pc = "console"
    /\ envSent + k <= LogCap + RingExtra
    /\ IF k = 1 THEN Len(logCh) < RingPending ELSE logCh = <<>>
    /\ Len(logCh) + k <= LogChCap
    /\ logCh' = logCh \o RingLines(k)
    /\ envSent' = envSent + k
    /\ UNCHANGED <<osVars, upVars, proc, statusCh, uiVars, viewVars, stops, auxVars>>

NextRing ==
    \/ \E k \in {1, RingBurst} : RingLog(k)
    \/ TickLogs
    \/ TickStatuses

\* the lines that have arrived and are stored when the runs of the log
\* buffer begin: one burst less than the buffer holds
RingStored == LogCap - RingBurst

\* the console has run for a while: RingStored lines have arrived, a tick has
\* stored and rendered them, and nothing is queued
InitRing ==
    /\ pc = "console"
    /\ console = "idle"
    /\ up = [names |-> <<>>, detached |-> FALSE, force |-> FALSE, noPTY |-> FALSE]
    /\ listeners = [p \in Ports |-> {}]
    /\ lsofErr = {}
    /\ services = <<"api", "web", "wrk">>
    /\ order = <<"api", "wrk", "web">>
    /\ next = Len(order) + 1
    /\ mstatuses = StartingRows(services)
    /\ statuses = NewModelStatuses(StartingRows(services))
    /\ signals = <<>> /\ reports = <<>> /\ upErr = ""
    /\ proc = [n \in DOMAIN Services |-> NoProc]
    /\ statusCh = <<>> /\ logCh = <<>>
    /\ LET st == drainLogs([logs |-> <<>>, filters |-> EmptyMap], [i \in 1..RingStored |-> RingLine(i)])
       IN /\ logs = st.logs
          /\ filters = st.filters
          /\ viewport = renderViewport(NewViewport, st.logs, st.filters, TRUE)
          /\ colors = renderColors(EmptyMap, st.logs, st.filters)
    /\ follow = TRUE /\ logSelStart = 0 /\ logSelEnd = 0 /\ logSelecting = FALSE
    /\ pgStatsCh = NilChan /\ pgStats = 0 /\ tickCount = 0 /\ fetching = {} /\ fetched = <<>>
    /\ clipboard = <<>>
    /\ interrupted = FALSE /\ focusStatus = FALSE /\ filterMode = FALSE
    /\ filterText = <<>> /\ selected = 0
    /\ envSent = RingStored
    /\ stops = <<>>
    /\ launched = LaunchTrace(order)
    /\ call = NoCall

\* the console fed more lines than its log buffer holds
SpecRing == InitRing /\ [][NextRing]_vars


\* the most lines the processes write, all together, in the runs of the
\* multiplexer
MaxPipeLines == 2

\* the capture modes of the two services in the runs of the multiplexer
PipeModes == {"pty", "pipe"}

\* the batch <<api, wrk>> has been launched and the console has just been
\* created: both processes run, each with its reader tasks and its exit
\* waiter, and the two running updates are queued
InitPipes ==
    /\ pc = "console"
    /\ console = "idle"
    /\ up = [names |-> <<"api", "wrk">>, detached |-> FALSE, force |-> FALSE, noPTY |-> FALSE]
    /\ listeners = [p \in Ports |-> {}]
    /\ lsofErr = {}
    /\ services = <<"api", "wrk">>
    /\ order = <<"api", "wrk">>
    /\ next = 3
    /\ mstatuses = StartingRows(<<"api", "wrk">>)
    /\ statuses = NewModelStatuses(StartingRows(<<"api", "wrk">>))
    /\ signals = <<>> /\ reports = <<<<>>>> /\ upErr = ""
    /\ \E ma \in PipeModes, mw \in PipeModes :
          proc = [n \in DOMAIN Services |->
                    IF n = "api"
                    THEN [Started(n, ma, ma = "pipe") EXCEPT !.readers = ModeStreams(ma), !.waiter = "waiting"]
                    ELSE IF n = "wrk"
                    THEN [Started(n, mw, FALSE) EXCEPT !.readers = ModeStreams(mw), !.waiter = "waiting"]
                    ELSE NoProc]
    /\ statusCh = <<RunningUpdate("api"), RunningUpdate("wrk")>>
    /\ logCh = IF proc["api"].ptyDenied THEN <<WarnLine("api")>> ELSE <<>>
    /\ logs = <<>> /\ filters = EmptyMap
    /\ interrupted = FALSE /\ focusStatus = FALSE /\ filterMode = FALSE
    /\ filterText = <<>> /\ selected = 0 /\ envSent = 0
    /\ NewView
    /\ stops = <<>>
    /\ launched = LaunchTrace(order)
    /\ call = NoCall

NextPipes ==
    \/ \E n \in DOMAIN Services, st \in Streams : ProcWriteUpTo(n, st, MaxPipeLines)
    \/ \E n \in DOMAIN Services : ProcExit(n)
    \/ \E n \in DOMAIN Services, st \in Streams : ReaderForward(n, st)
    \/ \E n \in DOMAIN Services, st \in Streams : ReaderEOF(n, st)
    \/ \E n \in DOMAIN Services : WaiterStopped(n)
    \/ TickLogs
    \/ TickStatuses

\* the processes, their readers and waiters, and the console that drains
SpecPipes == InitPipes /\ [][NextPipes]_vars

\* the lines queued on logCh when the runs of the full channel begin: one
\* less than the channel holds
MuxQueued == LogChCap - 1

\* the most lines the process writes after that, in the runs of the full
\* channel
MaxMuxLines == 2

\* api was launched with its output on pipes and has written MuxQueued lines
\* to stdout, all forwarded by its reader, before the first tick of the
\* console
InitMux ==
    /\ pc = "console"
    /\ console = "idle"
    /\ up = [names |-> <<"api">>, detached |-> FALSE, force |-> FALSE, noPTY |-> TRUE]
    /\ listeners = [p \in Ports |-> {}]
    /\ lsofErr = {}
    /\ services = <<"api">>
    /\ order = <<"api">>
    /\ next = 2
    /\ mstatuses = StartingRows(<<"api">>)
    /\ statuses = NewModelStatuses(StartingRows(<<"api">>))
    /\ signals = <<>> /\ reports = <<<<>>>> /\ upErr = ""
    /\ proc = [n \in DOMAIN Services |->
                IF n = "api"
                THEN [Started(n, "pipe", FALSE) EXCEPT !.readers = ModeStreams("pipe"),
                                                       !.waiter = "waiting",
                                                       !.emitted = MuxQueued]
                ELSE NoProc]
    /\ statusCh = <<RunningUpdate("api")>>
    /\ logCh = [i \in 1..MuxQueued |-> [Service |-> "api", Text |-> <<"stdout", i>>]]
    /\ logs = <<>> /\ filters = EmptyMap
    /\ interrupted = FALSE /\ focusStatus = FALSE /\ filterMode = FALSE
    /\ filterText = <<>> /\ selected = 0 /\ envSent = 0
    /\ NewView
    /\ stops = <<>>
    /\ launched = LaunchTrace(order)
    /\ call = NoCall

NextMux ==
    \/ \E n \in DOMAIN Services, st \in Streams : ProcWriteUpTo(n, st, MuxQueued + MaxMuxLines)
    \/ \E n \in DOMAIN Services : ProcExit(n)
    \/ \E n \in DOMAIN Services, st \in Streams : ReaderForward(n, st)
    \/ \E n \in DOMAIN Services, st \in Streams : ReaderEOF(n, st)
    \/ \E n \in DOMAIN Services : WaiterStopped(n)
    \/ TickLogs
    \/ TickStatuses

\* a process that fills logCh, and the console that ticks
SpecMux == InitMux /\ [][NextMux]_vars

\* the longest string given to commandContainsExpected
MaxStrLen == 3

\* the characters of the strings given to commandContainsExpected
StrChars == {"a", "p", " "}

\* the strings of at most n characters
StringsUpTo(n) == UNION {[1..k -> StrChars] : k \in 0..n}

\* commandContainsExpected called on any two strings
InitFingerprint ==
    \E a \in StringsUpTo(MaxStrLen), e \in StringsUpTo(MaxStrLen) :
       InitCall([fn |-> "commandContainsExpected", actual |-> a, expected |-> e,
                 done |-> FALSE, result |-> FALSE])

SpecFingerprint == InitFingerprint /\ [][CallCommandContainsExpected]_vars

\* the most entries of a ProcessState that is saved
MaxEntries == 2

\* the keys, the service names, the pids and the other strings of the
\* entries that are saved
StoreKeys == {<<"a", "p", "i">>, <<"w">>, <<"a">>}
StoreServices == {<<"a", "p", "i">>, <<"w", "\"", "\\">>}
StorePids == {0, 1234, -1}
StoreTexts == {<<"p", "\"", "a", "\"">>}

StoreEntries ==
    [Service : StoreServices, PID : StorePids, PGID : StorePids,
     Cwd : {<<>>}, Cmdline : StoreTexts]

\* the ProcessStates that are saved: a nil map, or at most MaxEntries entries
StoreStates ==
    {NilState}
    \cup {[nil |-> FALSE, Entries |-> m] :
            m \in UNION {[K -> StoreEntries] : K \in {S \in SUBSET StoreKeys : Cardinality(S) <= MaxEntries}}}

\* saveProcessState then loadProcessState, no file at the store path before
InitStore ==
    \E st \in StoreStates, ok \in BOOLEAN :
       InitCall([fn |-> "store", state |-> st, fsOK |-> ok, file |-> NoFile,
                 step |-> "init", err |-> "", loaded |-> NilState])

NextStore == CallSave \/ CallLoad

SpecStore == InitStore /\ [][NextStore]_vars

\* the lines queued on logCh when the runs of the log pane begin: more than
\* the pane shows
ViewQueued == NewViewportHeight + 2

\* the keys pressed and the heights of the window in the runs of the log pane
ViewKeys == {"j", "k", "g", "G", "f", "pgup", "pgdown", "home", "tab"}
ViewHeights == {8, 20}

\* the console has just been created for api, which has written ViewQueued
\* lines
InitView ==
    /\ pc = "console"
    /\ console = "idle"
    /\ up = [names |-> <<"api">>, detached |-> FALSE, force |-> FALSE, noPTY |-> FALSE]
    /\ listeners = [p \in Ports |-> {}]
    /\ lsofErr = {}
    /\ services = <<"api">>
    /\ order = <<"api">>
    /\ next = 2
    /\ mstatuses = StartingRows(<<"api">>)
    /\ statuses = NewModelStatuses(StartingRows(<<"api">>))
    /\ signals = <<>> /\ reports = <<<<>>>> /\ upErr = ""
    /\ proc = [n \in DOMAIN Services |-> NoProc]
    /\ statusCh = <<RunningUpdate("api")>>
    /\ logCh = [i \in 1..ViewQueued |-> [Service |-> "api", Text |-> <<"stdout", i>>]]
    /\ logs = <<>> /\ filters = EmptyMap
    /\ interrupted = FALSE /\ focusStatus = FALSE /\ filterMode = FALSE
    /\ filterText = <<>> /\ selected = 0 /\ envSent = 0
    /\ NewView
    /\ stops = <<>>
    /\ launched = LaunchTrace(order)
    /\ call = NoCall

NextView ==
    \/ TickLogs
    \/ TickStatuses
    \/ \E key \in ViewKeys : KeyMsg(key)
    \/ \E kind \in {"wheelup", "wheeldown"} : MouseMsg(kind, 0)
    \/ \E h \in ViewHeights : WindowSizeMsg(h)
    \/ \E l \in EnvLines : EnvLog(l)

\* the log pane: ticks, scrolling, resizing and new lines
SpecView == InitView /\ [][NextView]_vars

\* the console has just been created for api, with the postgres statistics
\* enabled
InitPg ==
    /\ pc = "console"
    /\ console = "idle"
    /\ up = [names |-> <<"api">>, detached |-> FALSE, force |-> FALSE, noPTY |-> FALSE]
    /\ listeners = [p \in Ports |-> {}]
    /\ lsofErr = {}
    /\ services = <<"api">>
    /\ order = <<"api">>
    /\ next = 2
    /\ mstatuses = StartingRows(services)
    /\ statuses = NewModelStatuses(StartingRows(services))
    /\ signals = <<>> /\ reports = <<<<>>>> /\ upErr = ""
    /\ proc = [n \in DOMAIN Services |-> NoProc]
    /\ statusCh = <<RunningUpdate("api")>>
    /\ logCh = <<>> /\ logs = <<>> /\ filters = EmptyMap
    /\ interrupted = FALSE /\ focusStatus = FALSE /\ filterMode = FALSE
    /\ filterText = <<>> /\ selected = 0 /\ envSent = 0
    /\ follow = TRUE /\ viewport = NewViewport
    /\ logSelStart = 0 /\ logSelEnd = 0 /\ logSelecting = FALSE
    /\ colors = EmptyMap /\ clipboard = <<>>
    /\ pgStatsCh = NewPgChan /\ pgStats = 0 /\ tickCount = 0 /\ fetching = {} /\ fetched = <<>>
    /\ stops = <<>>
    /\ launched = LaunchTrace(order)
    /\ call = NoCall

NextPg ==
    \/ TickLogs
    \/ TickStatuses
    \/ \E id \in 1..(MaxTicks \div FetchEvery + 1) : FetchDone(id)

\* the console with the statistics panel: ticks, and fetches that return
\* at any time
SpecPg == InitPg /\ [][NextPg]_vars

\* the keys pressed and the offsets into the log text the mouse yields in
\* the runs of the selection
SelectKeys == {"ctrl+c", "tab", " ", "n", "a", "/", "enter"}
MaxSelOffset == 3

\* the console has just been created for api and web, which have written a
\* line each
InitSelect ==
    /\ pc = "console"
    /\ console = "idle"
    /\ up = [names |-> <<"api", "web">>, detached |-> FALSE, force |-> FALSE, noPTY |-> FALSE]
    /\ listeners = [p \in Ports |-> {}]
    /\ lsofErr = {}
    /\ services = <<"api", "web">>
    /\ order = <<"api", "web">>
    /\ next = 3
    /\ mstatuses = StartingRows(services)
    /\ statuses = NewModelStatuses(StartingRows(services))
    /\ signals = <<>> /\ reports = <<<<>>>> /\ upErr = ""
    /\ proc = [n \in DOMAIN Services |-> NoProc]
    /\ statusCh = <<RunningUpdate("api"), RunningUpdate("web")>>
    /\ logCh = <<[Service |-> "api", Text |-> <<"stdout", 1>>], [Service |-> "web", Text |-> <<"stdout", 1>>]>>
    /\ logs = <<>> /\ filters = EmptyMap
    /\ interrupted = FALSE /\ focusStatus = FALSE /\ filterMode = FALSE
    /\ filterText = <<>> /\ selected = 0 /\ envSent = 0
    /\ NewView
    /\ stops = <<>>
    /\ launched = LaunchTrace(order)
    /\ call = NoCall

NextSelect ==
    \/ TickLogs
    \/ TickStatuses
    \/ \E key \in SelectKeys : KeyPress(key, {})
    \/ \E kind \in {"press", "motion", "release"}, off \in 0..MaxSelOffset : MouseMsg(kind, off)

\* the console of api and web: mouse selections in the log text, filters
\* that hide lines, copies
SpecSelect == InitSelect /\ [][NextSelect]_vars

\* the keys pressed and the runes typed as filter text in the runs of the
\* focus
FocusKeys ==
    {"q", "ctrl+c", "tab", "/", "esc", "enter", "backspace", " ", "a", "n", "j", "k", "g", "G", "f",
     "pgup", "pgdown"}
FocusRunes == {"q", " ", "j", "f", "g"}

NextFocus ==
    \/ TickLogs
    \/ TickStatuses
    \/ \E key \in FocusKeys : KeyPress(key, FocusRunes)

\* the console of api, with more lines than the pane shows, and every key
SpecFocus == InitView /\ [][NextFocus]_vars

\* the services that write, in turn, in the runs of the colours: one more
\* than the palette holds
ColorNames == <<"api", "web", "wrk", "dkr", "adm", "WARN", "ERROR", "INFO", "svc9", "svc10", "svc11">>

\* the lines that arrive in a run of the colours
MaxColorLines == 12

\* the k-th line to arrive on logCh in the runs of the colours
ColorLine(k) ==
    [Service |-> ColorNames[((k - 1) % Len(ColorNames)) + 1], Text |-> <<"stdout", k>>]

\* a reader task sends the next line on logCh (at most two wait between
\* two ticks)
ColorLog ==
    /\ pc = "console"
    /\ envSent < MaxColorLines
    /\ Len(logCh) < 2
    /\ logCh' = Append(logCh, ColorLine(envSent + 1))
    /\ envSent' = envSent + 1
    /\ UNCHANGED <<osVars, upVars, proc, statusCh, uiVars, viewVars, stops, auxVars>>

NextColors ==
    \/ ColorLog
    \/ TickLogs
    \/ TickStatuses
    \/ \E key \in {"tab", " "} : KeyMsg(key)

\* the console with eleven writers, while the user shows and hides the
\* first service of the status table
SpecColors == InitConsole /\ [][NextColors]_vars

\* the command lines `floppy up` of the runs of the launch loops: two
\* portals with another service, two portals alone, one portal with a worker
LaunchNames == {<<"api", "web", "adm">>, <<"adm", "web">>, <<"wrk", "web">>}

LaunchRuns ==
    [names : LaunchNames, detached : BOOLEAN, force : {FALSE}, noPTY : {FALSE},
     busy : {{}}, err : {{}}]

\* Up from its call to the start of the console
NextLaunch ==
    \/ UpEnter
    \/ UpValidate
    \/ LaunchBegin
    \/ LaunchWarn
    \/ LaunchRunning
    \/ LaunchError
    \/ LaunchErrLog
    \/ UpRunConsole

\* the two launch loops of Up
SpecLaunch == InitUp(LaunchRuns) /\ [][NextLaunch]_vars

\* the command lines `floppy up` that name a service the configuration
\* does not define (ghost), alone and with defined services
UnknownNames == {<<"ghost">>, <<"api", "ghost">>, <<"ghost", "wrk", "web">>}

UnknownRuns ==
    [names : UnknownNames, detached : BOOLEAN, force : {FALSE}, noPTY : BOOLEAN,
     busy : {{}}, err : {{}}]

\* Up for a service set with an unknown service
SpecUnknown == InitUp(UnknownRuns) /\ [][NextLaunch]_vars

\* the batches launched in the runs of the shutdown coordinator, as named on
\* the command line and as expanded
StopBatches == {[names |-> <<"core">>, services |-> <<"api", "wrk">>],
                [names |-> <<"wrk">>,  services |-> <<"wrk">>]}

\* the keys pressed in the runs of the shutdown coordinator
StopKeys == {"q", "ctrl+c", "tab"}

\* the arguments of `floppy stop` in the runs of the shutdown coordinator
StopNames == {<<>>, <<"api">>, <<"wrk">>, <<"core">>}

\* a batch has been launched, every process runs and the first one has
\* written a line; Up was detached and has returned, or the console has just
\* been created; the probe of port 8000 works or fails
InitStop ==
    /\ \E b \in StopBatches, detached \in BOOLEAN :
       LET svcs == b.services
       IN /\ up = [names |-> b.names, detached |-> detached, force |-> FALSE, noPTY |-> FALSE]
          /\ services = svcs
          /\ order = svcs
          /\ next = Len(svcs) + 1
          /\ mstatuses = StartingRows(svcs)
          /\ pc = IF detached THEN "returned" ELSE "console"
          /\ console = IF detached THEN "off" ELSE "idle"
          /\ statuses = IF detached THEN [n \in {} |-> 0] ELSE NewModelStatuses(StartingRows(svcs))
          /\ proc = [n \in DOMAIN Services |->
                      IF n \in Range(svcs)
                      THEN [Started(n, "pty", FALSE) EXCEPT
                               !.readers = ModeStreams("pty"), !.waiter = "waiting",
                               !.emitted = IF n = svcs[1] THEN 1 ELSE 0]
                      ELSE NoProc]
          /\ statusCh = [i \in 1..Len(svcs) |-> RunningUpdate(svcs[i])]
          /\ logCh = <<[Service |-> svcs[1], Text |-> <<"stdout", 1>>]>>
    /\ listeners = [p \in Ports |-> {}]
    /\ lsofErr \in {{}, {8000}}
    /\ signals = <<>> /\ reports = <<<<>>>> /\ upErr = ""
    /\ logs = <<>> /\ filters = EmptyMap
    /\ interrupted = FALSE /\ focusStatus = FALSE /\ filterMode = FALSE
    /\ filterText = <<>> /\ selected = 0 /\ envSent = 0
    /\ NewView
    /\ stops = <<>>
    /\ launched = LaunchTrace(order)
    /\ call = NoCall

NextStop ==
    \/ \E n \in DOMAIN Services : ProcListen(n)
    \/ \E n \in DOMAIN Services : ProcExit(n)
    \/ \E n \in DOMAIN Services : WaiterStopped(n)
    \/ ForeignListen(901, 8000)
    \/ TickLogs
    \/ TickStatuses
    \/ \E key \in StopKeys : KeyMsg(key)
    \/ \E kind \in {"press", "motion", "release"}, off \in SelOffsets : MouseMsg(kind, off)
    \/ UpConsoleError
    \/ UpAfterConsole
    \/ UpStop
    \/ \E names \in StopNames : CmdStop(names)

\* the end of a session, by the console or by `floppy stop`
SpecStop == InitStop /\ [][NextStop]_vars


(***************************************************************************)
(* Properties of the port resolver                                         *)
(***************************************************************************)
\* Up is past validatePorts
Validated == pc \notin {"enter", "validate"}

\* the launch loop of Up has been entered (startFn may have been called)
Launching == pc \in {"begin", "sendWarn", "sendRunning", "sendError", "sendErrLog", "console", "stop"}

\* the required ports the probe reports as owned by some process
OccupiedPorts ==
    {p \in DOMAIN RequiredPorts(services) :
        ~lsofPort(listeners, lsofErr, p).err /\ Len(lsofPort(listeners, lsofErr, p).lines) > 0}

\* no process has been started and nothing has been sent on the channels
NothingStarted ==
    /\ \A n \in DOMAIN proc : proc[n].state = "none"
    /\ statusCh = <<>>
    /\ logCh = <<>>
    /\ next = 1

LastReport == reports[Len(reports)]

\* the pids a conflict list names as owners
OwnersOf(cs) ==
    UNION {{cs[i].Processes[k].pid : k \in 1..Len(cs[i].Processes)} : i \in 1..Len(cs)}

\* C1: with force=false, once validatePorts has run over a batch of which at
\* least one required port is reported occupied, Up has returned the port
\* conflict error, no service has been started, no start has been attempted
\* and no StatusUpdate or LogLine has been sent.
C1_ConflictWithoutForceStartsNothing ==
    (Validated /\ ~up.force /\ OccupiedPorts # {})
        => /\ pc = "returned"
           /\ upErr = "port conflicts"
           /\ NothingStarted
           /\ signals = <<>>

C1_Witness ==
    /\ pc = "returned"
    /\ ~up.force
    /\ upErr = "port conflicts"
    /\ Len(services) = 2
    /\ Cardinality(OccupiedPorts) = 1

\* pid is sent SIGTERM and, right after it, SIGKILL
TermThenKill(pid) ==
    \E i \in 1..(Len(signals) - 1) :
        /\ signals[i] = [pid |-> pid, sig |-> "SIGTERM"]
        /\ signals[i + 1] = [pid |-> pid, sig |-> "SIGKILL"]

\* C2: with force=true, once validatePorts has found conflicts, every process
\* listed as owner of a conflicting port has been sent SIGTERM and then
\* SIGKILL, only such processes have been signalled, Up has not failed and is
\* in its launch loop, which ends only after the start of every requested
\* service has been attempted.
C2_ForceKillsOwnersAndLaunches ==
    (Validated /\ up.force /\ Len(LastReport) > 0)
        => /\ \A pid \in OwnersOf(LastReport) : TermThenKill(pid)
           /\ {signals[i].pid : i \in 1..Len(signals)} = OwnersOf(LastReport)
           /\ \A k \in 1..Len(signals) :
                 (signals[k].sig = "SIGKILL")
                    => (k > 1 /\ signals[k - 1].sig = "SIGTERM" /\ signals[k - 1].pid = signals[k].pid)
           /\ \A i \in 1..Len(LastReport) : LastReport[i].Port \in DOMAIN RequiredPorts(services)
           /\ upErr = ""
           /\ Launching
           /\ Range(order) = Range(services)
           /\ (pc = "console" => next = Len(order) + 1)

C2_Witness ==
    /\ pc = "console"
    /\ up.force
    /\ Len(signals) = 2
    /\ TermThenKill(901)
    /\ \E n \in DOMAIN proc : proc[n].state = "running"
    /\ \E p \in Ports \ DOMAIN RequiredPorts(services) : listeners[p] = {902}

\* a conflict list as a set: the port, its requesting services, its owners
ConflictSet(cs) ==
    {[Port |-> cs[i].Port, Services |-> Range(cs[i].Services), Processes |-> Range(cs[i].Processes)] :
        i \in 1..Len(cs)}

\* C3: the runs of validatePorts (force=false) for the same services over an
\* unchanged state of the ports report the same set of conflicts, whatever
\* the order of the services and the order in which the ports are probed.
C3_ValidateIdempotent ==
    \A i, j \in 1..Len(reports) : ConflictSet(reports[i]) = ConflictSet(reports[j])

C3_Witness ==
    /\ Len(reports) = 2
    /\ Len(reports[1]) >= 2
    /\ reports[1] # reports[2]
    /\ lsofErr # {}

\* C4: a required port whose probe errors is in no conflict, no process is
\* signalled but the owners of the conflicting ports, Up fails on ports only
\* when a probe that did not error reports an owner, and when every probe
\* errors validatePorts succeeds and the launch loop is entered.
C4_ProbeErrorIsUnknown ==
    /\ \A r \in 1..Len(reports) : \A i \in 1..Len(reports[r]) : reports[r][i].Port \notin lsofErr
    /\ \A r \in 1..Len(reports) : \A i \in 1..Len(reports[r]) :
          reports[r][i].Port \in DOMAIN RequiredPorts(services) \/ pc = "enter"
    /\ {signals[i].pid : i \in 1..Len(signals)} \subseteq
          UNION {OwnersOf(reports[r]) : r \in 1..Len(reports)}
    /\ (upErr = "port conflicts" => Len(LastReport) > 0)
    /\ (Validated /\ DOMAIN RequiredPorts(services) \subseteq lsofErr)
          => upErr = "" /\ Launching /\ LastReport = <<>> /\ signals = <<>>

C4_Witness ==
    /\ pc = "console"
    /\ DOMAIN RequiredPorts(services) # {}
    /\ DOMAIN RequiredPorts(services) \subseteq lsofErr
    /\ \E p \in DOMAIN RequiredPorts(services) : listeners[p] # {}
    /\ \E n \in DOMAIN proc : proc[n].state = "running"


(***************************************************************************)
(* Properties of the console                                               *)
(***************************************************************************)
\* the lines the console has appended so far, in the runs of the log buffer
Arrived == envSent - Len(logCh)

\* a line as the log buffer holds it: the text as it arrived, the service
\* name as it arrived but for the empty name, held as INFO
Held(line) ==
    [Service |-> IF line.Service = "" THEN "INFO" ELSE line.Service, Text |-> line.Text]

\* C5: after every append the log buffer holds at most 2000 entries, and
\* they are the last min(n, 2000) of the n lines that arrived, in the order
\* of arrival (a line that arrived without a service name is held as INFO).
C5_LogRingKeepsLatest ==
    /\ Len(logs) <= LogCap
    /\ Len(logs) = Min(Arrived, LogCap)
    /\ \A i \in 1..Len(logs) : logs[i] = Held(RingLine(Arrived - Len(logs) + i))

C5_Witness ==
    /\ Len(logs) = LogCap
    /\ Arrived = LogCap + RingExtra
    /\ logs[1].Text = <<"stdout", RingExtra + 1>>
    /\ logs[LogCap].Text = <<"stdout", LogCap + RingExtra>>

\* the names of the messages a tick step drains: the services of the queued
\* lines (TickLogs) or the names of the queued updates (TickStatuses)
Drained ==
    IF console = "idle"
    THEN {Held(logCh[i]).Service : i \in 1..Len(logCh)}
    ELSE {statusCh[i].Name : i \in 1..Len(statusCh)}

\* C6: a tick step of the console (drainLogs or drainStatuses) gives every
\* name it drains that had no filter entry an entry with value true, leaves
\* every entry that existed before the step at its value, and adds no other
\* entry.
C6_FirstSeenIsVisible ==
    [][((console = "idle" /\ console' = "tick") \/ (console = "tick" /\ console' = "idle"))
          => /\ DOMAIN filters' = DOMAIN filters \cup Drained
             /\ \A k \in DOMAIN filters : filters'[k] = filters[k]
             /\ \A k \in Drained \ DOMAIN filters : filters'[k] = TRUE]_vars

C6_Witness ==
    /\ console = "idle"
    /\ statusCh = <<>>
    /\ DOMAIN filters = {"api", "web", "wrk", "dkr"}
    /\ ~filters["api"] /\ ~filters["web"] /\ ~filters["wrk"]
    /\ filters["dkr"]
    /\ "dkr" \in DOMAIN statuses
    /\ statuses["dkr"].Status = "stopped"

\* the name matches the text filter of the status pane
MatchesFilter(name) == Contains(ToLower(Chars(name)), ToLower(filterText))

\* C7: with a text filter active in the status pane, the keys n then a leave
\* the flag true for exactly the services that match the text filter and
\* leave the flag of every other service as it was before the two keys.
C7_NoneThenAllOnFilteredView ==
    (console = "idle" /\ focusStatus /\ ~filterMode /\ filterText # <<>>)
        => LET after == UpdateKey(UpdateKey(ModelOf, "n"), "a").filters
           IN \A name \in DOMAIN statuses \cup DOMAIN filters :
                 IF name \in DOMAIN statuses /\ MatchesFilter(name)
                 THEN FilterGet(after, name) = TRUE
                 ELSE FilterGet(after, name) = FilterGet(filters, name)

(***************************************************************************)
(* Properties of the launcher                                              *)
(***************************************************************************)
\* C8: a service whose PTY start was denied and whose start with pipes
\* succeeded runs in pipe mode, its warning line was enqueued before its
\* running update, no error update is enqueued for it, Up has not failed,
\* and the launch loop goes on to every other service of the batch.
C8_PtyDeniedFallsBackToPipes ==
    /\ \A n \in DOMAIN proc :
          proc[n].ptyDenied
             => /\ proc[n].mode = "pipe"
                /\ proc[n].state = "running"
                /\ WarnLine(n) \in Range(logCh)
                /\ ErrorUpdate(n) \notin Range(statusCh)
                /\ upErr = ""
    /\ pc = "sendWarn"
          => /\ WarnLine(order[next]) \notin Range(logCh)
             /\ RunningUpdate(order[next]) \notin Range(statusCh)
    /\ (pc = "console" /\ \E n \in DOMAIN proc : proc[n].ptyDenied)
          => \A m \in Range(services) :
                RunningUpdate(m) \in Range(statusCh) \/ ErrorUpdate(m) \in Range(statusCh)

C8_Witness ==
    /\ pc = "console"
    /\ Len(order) = 2
    /\ proc[order[1]].ptyDenied
    /\ logCh = <<WarnLine(order[1])>>
    /\ statusCh = <<RunningUpdate(order[1]), RunningUpdate(order[2])>>

\* C9: every service whose start has been attempted and has failed has its
\* error update and its error line, naming it, enqueued; the launch loop
\* ends only after the start of every service of the batch has been
\* attempted; Up returns no error once the launch loop is entered.
C9_StartFailureIsPerService ==
    /\ \A i \in 1..Len(order) :
          (Launching /\ i < next)
             => IF proc[order[i]].state = "none"
                THEN /\ ErrorUpdate(order[i]) \in Range(statusCh)
                     /\ ErrorLine(order[i]) \in Range(logCh)
                     /\ RunningUpdate(order[i]) \notin Range(statusCh)
                ELSE /\ RunningUpdate(order[i]) \in Range(statusCh)
                     /\ ErrorUpdate(order[i]) \notin Range(statusCh)
    /\ pc = "console" => next = Len(order) + 1 /\ Range(order) = Range(services)
    /\ Launching => upErr = ""
    /\ upErr # "" => statusCh = <<>> /\ logCh = <<>>

C9_Witness ==
    /\ pc = "console"
    /\ Len(order) = 2
    /\ statusCh = <<ErrorUpdate(order[1]), RunningUpdate(order[2])>>
    /\ logCh = <<ErrorLine(order[1])>>
    /\ proc[order[2]].state = "running"

\* the status the console shows for a service, then the statuses of the
\* updates queued for it on statusCh, in the order of the queue
StatusPath(n) ==
    <<IF n \in DOMAIN statuses THEN statuses[n].Status ELSE "starting">>
       \o [i \in 1..Len(SelectSeq(statusCh, LAMBDA u : u.Name = n)) |->
              SelectSeq(statusCh, LAMBDA u : u.Name = n)[i].Status]

\* the transitions of a service within one Up
StatusMoves ==
    {<<"starting", "running">>, <<"running", "stopped">>, <<"starting", "error">>}

\* C10: for every service, the status shown followed by the updates queued
\* for it moves only starting -> running -> stopped or starting -> error
\* (running is enqueued before stopped), and no step of the console moves
\* the status shown backwards.
C10_StatusesInOrder ==
    /\ [](\A n \in Range(services) :
            \A i \in 1..(Len(StatusPath(n)) - 1) :
               <<StatusPath(n)[i], StatusPath(n)[i + 1]>> \in StatusMoves)
    /\ [][\A n \in DOMAIN statuses \cap DOMAIN statuses' :
            \/ statuses'[n].Status = statuses[n].Status
            \/ <<statuses[n].Status, statuses'[n].Status>>
                  \in StatusMoves \cup {<<"starting", "stopped">>}]_vars

C10_Witness ==
    /\ pc = "console"
    /\ \E n \in DOMAIN statuses :
          /\ statuses[n].Status = "running"
          /\ statusCh = <<StoppedUpdate(n)>>
          /\ proc[n].waiter = "done"


(***************************************************************************)
(* Properties of the multiplexer                                           *)
(***************************************************************************)
\* the lines of service n in the log buffer, in the order of the buffer
LogsOf(n) == SelectSeq(logs, LAMBDA l : l.Service = n)

\* C11: for every service, the lines of the service are in the log buffer in
\* the order in which its process wrote them (Text[2] is the rank of the
\* line among the lines the process wrote).
C11_PerServiceFifo ==
    \A n \in Range(services) :
       \A i, j \in 1..Len(LogsOf(n)) :
          i < j => LogsOf(n)[i].Text[2] < LogsOf(n)[j].Text[2]

(***************************************************************************)
(* Properties of the channels between the readers and the console          *)
(***************************************************************************)
\* the last k elements of a sequence
KeepLast(q, k) == IF Len(q) > k THEN SubSeq(q, Len(q) - k + 1, Len(q)) ELSE q

\* the queued lines as the console stores them
Stored(ch) ==
    [i \in 1..Len(ch) |-> [Service |-> IF ch[i].Service = "" THEN "INFO" ELSE ch[i].Service,
                           Text    |-> ch[i].Text]]

\* the status the last update queued for `n` on `ch` carries
LastStatus(ch, n) ==
    LET is == {i \in 1..Len(ch) : ch[i].Name = n}
    IN ch[CHOOSE i \in is : \A j \in is : j <= i].Status

\* a reader that takes a line from its stream sends it on logCh, which had
\* room (a stream also shrinks when the waiter's cmd.Wait closes the pipes:
\* what is lost there was never sent); the waiter that has seen the exit
\* sends the stopped update
SendsAreQueued ==
    /\ \A n \in DOMAIN Services, st \in Streams :
          Len(proc'[n].buf[st]) < Len(proc[n].buf[st]) /\ proc'[n].waiter = proc[n].waiter =>
             /\ Len(logCh) < LogChCap
             /\ logCh' = Append(logCh, [Service |-> n, Text |-> <<st, Head(proc[n].buf[st])>>])
    /\ \A n \in DOMAIN Services :
          proc[n].waiter = "waiting" /\ proc'[n].waiter = "done" =>
             /\ Len(statusCh) < StatusChCap
             /\ statusCh' = Append(statusCh, StoppedUpdate(n))

\* a channel changes by one message sent at its end, or by the console
\* taking all of it and applying every message in the order of the channel
QueuesAreApplied ==
    /\ Len(logCh') <= LogChCap /\ Len(statusCh') <= StatusChCap
    /\ logCh' # logCh =>
          \/ Len(logCh') = Len(logCh) + 1 /\ SubSeq(logCh', 1, Len(logCh)) = logCh
          \/ logCh' = <<>> /\ logs' = KeepLast(logs \o Stored(logCh), LogCap)
    /\ statusCh' # statusCh =>
          \/ Len(statusCh') = Len(statusCh) + 1 /\ SubSeq(statusCh', 1, Len(statusCh)) = statusCh
          \/ /\ statusCh' = <<>>
             /\ \A n \in DOMAIN statuses' :
                   IF \E i \in 1..Len(statusCh) : statusCh[i].Name = n
                   THEN statuses'[n].Status = LastStatus(statusCh, n)
                   ELSE n \in DOMAIN statuses /\ statuses'[n] = statuses[n]

\* every tick of the console takes all that is queued: the lines in its
\* first part, the status updates in its second
TicksTakeAll ==
    /\ console = "idle" /\ console' = "tick" => logCh' = <<>>
    /\ console = "tick" /\ console' = "idle" => statusCh' = <<>>

\* C12: the channels never discard a message: a send into a full channel
\* waits, every line and status update sent is queued, and every tick of the
\* console applies every queued message once, in channel order.
C12_NoMessageDiscarded == [][SendsAreQueued /\ QueuesAreApplied /\ TicksTakeAll]_vars

\* logCh is full and a reader holds a line it cannot send yet
C12_Witness ==
    /\ Len(logCh) = LogChCap
    /\ \E st \in proc["api"].readers : proc["api"].buf[st] # <<>>

(***************************************************************************)
(* Properties of the end of a session                                      *)
(***************************************************************************)
\* some log text is selected
LogSelection == viewport.visible > 0 /\ logSelStart # logSelEnd

\* q, and the interrupt key when no log text is selected, set the flag and
\* end the loop
QuitKeysInterrupt ==
    \A key \in {"q", "ctrl+c"} :
       KeyMsg(key) /\ ~filterMode /\ (key = "q" \/ ~LogSelection) =>
          interrupted' /\ console' = "quit"

\* Up has returned from a session with the console: Stop was called once, on
\* the expanded list, when the flag is set, and not at all otherwise
StopIffInterrupted ==
    /\ pc = "stop" => interrupted /\ stops = <<>>
    /\ pc = "returned" /\ ~up.detached =>
          IF interrupted
          THEN Len(stops) = 1 /\ stops[1].services = services
          ELSE stops = <<>>

\* C13: quitting the console (q, or the interrupt key with no log selection)
\* sets the interrupted flag and ends the loop, Up then calls Stop on exactly
\* the expanded service list of the session, and Stop is not called when the
\* console ends without the flag.
C13_QuitInvokesStop == [][QuitKeysInterrupt]_vars /\ []StopIffInterrupted

\* the user has quit, Up has called Stop on the expanded list of the bundle
\* it was given, and has returned
C13_Witness ==
    /\ pc = "returned" /\ interrupted
    /\ up.names = <<"core">>
    /\ Len(stops) = 1 /\ stops[1].services = <<"api", "wrk">>

(***************************************************************************)
(* Properties of the shutdown coordinator                                  *)
(***************************************************************************)
\* the process group of `pid` was sent the graceful and then the forced signal
GroupTerminated(pid) ==
    \E i, j \in 1..Len(signals) :
       /\ i < j
       /\ signals[i] = [pid |-> -pid, sig |-> "SIGTERM"]
       /\ signals[j] = [pid |-> -pid, sig |-> "SIGKILL"]

\* C14: once Stop has run, no targeted service without a primary port is
\* left running unless its process group was sent the graceful and then the
\* forced signal; so a port-less worker started in the session is terminated
\* when the user quits the console.
C14_PortlessServiceTerminated ==
    \A k \in 1..Len(stops) : \A n \in Range(stops[k].services) :
       n \in DOMAIN Services /\ Services[n].Port <= 0 /\ proc[n].state = "running"
          => GroupTerminated(proc[n].pid)

\* the pids Stop has signalled, a group counted by its leader
SignalledPids ==
    {IF signals[i].pid < 0 THEN -signals[i].pid ELSE signals[i].pid : i \in 1..Len(signals)}

\* C15: the shutdown coordinator signals a process on behalf of a service
\* only when the process is the one recorded for the service: an unrelated
\* process, whose command line does not carry the fingerprint of the service,
\* is never signalled.
C15_UnrelatedProcessNeverSignalled ==
    stops # <<>> => SignalledPids \cap ForeignPids = {}

\* C18: every call of Stop returns success and reports a result for each
\* service it was aimed at.
C18_StopReportsEachTarget ==
    \A k \in 1..Len(stops) :
       /\ stops[k].err = ""
       /\ \A n \in Range(stops[k].services) :
             \E r \in 1..Len(stops[k].results) : stops[k].results[r].name = n

\* every call of Stop returns success
StopSucceeds == \A k \in 1..Len(stops) : stops[k].err = ""

(***************************************************************************)
(* Properties of the launch order                                          *)
(***************************************************************************)
IsPortal(name) == SvcDef(name).Type = "portal"

\* the positions in `launched` of the start attempts of portals
PortalStarts == {k \in 1..Len(launched) : launched[k].ev = "start" /\ IsPortal(launched[k].name)}

\* the start attempt of every service of another kind has returned before
\* position k
OthersReturnedBefore(k) ==
    \A n \in Range(services) :
       ~IsPortal(n) => \E j \in 1..(k - 1) : launched[j] = ReturnEvent(n)

\* start attempts do not overlap: what follows a start is its own return
OneAtATime ==
    \A k \in 1..(Len(launched) - 1) :
       launched[k].ev = "start" => launched[k + 1] = ReturnEvent(launched[k].name)

\* the loop sleeps PortalDelay exactly between two portal starts: after the
\* return of a portal and before the start of the next
DelayBetweenPortals ==
    /\ \A k \in PortalStarts :
          IF \E j \in PortalStarts : j < k
          THEN k > 2 /\ launched[k - 1].ev = "sleep" /\ launched[k - 1].d = PortalDelay
               /\ launched[k - 2].ev = "return" /\ IsPortal(launched[k - 2].name)
          ELSE k = 1 \/ launched[k - 1].ev # "sleep"
    /\ \A k \in 1..Len(launched) :
          launched[k].ev = "sleep" => k < Len(launched) /\ (k + 1) \in PortalStarts

\* C19: within one Up a portal is started only after the start attempt of
\* every service of another kind has returned, portals are started one after
\* another, and the loop waits the fixed delay between two consecutive portal
\* starts and not before the first.
C19_PortalsLastAndSpaced ==
    /\ \A k \in PortalStarts : OthersReturnedBefore(k)
    /\ OneAtATime
    /\ DelayBetweenPortals

\* api and two portals were launched: the portals after api, a sleep between
\* them
C19_Witness ==
    /\ pc \in {"console", "returned"} /\ upErr = ""
    /\ Cardinality(PortalStarts) = 2
    /\ \E k \in 1..Len(launched) : launched[k].ev = "sleep"
    /\ \E k \in 1..Len(launched) : launched[k] = ReturnEvent("api")

(***************************************************************************)
(* Properties of the fingerprint and of the process-state store            *)
(***************************************************************************)
\* the string without the whitespace around it: from its first to its last
\* character that is not whitespace
Stripped(str) ==
    LET solid == {i \in 1..Len(str) : ~IsSpace(str[i])}
    IN IF solid = {} THEN <<>>
       ELSE SubSeq(str, CHOOSE i \in solid : \A j \in solid : i <= j,
                        CHOOSE i \in solid : \A j \in solid : j <= i)

\* `sub` occurs in `str` at some position
OccursIn(sub, str) ==
    \E i \in 1..(Len(str) - Len(sub) + 1) : SubSeq(str, i, i + Len(sub) - 1) = sub

\* C16: commandContainsExpected(actual, expected) is true exactly when both
\* strings, trimmed of the whitespace around them, are non-empty and the
\* trimmed expected occurs in the trimmed actual; an empty or all-whitespace
\* actual or expected gives false.
C16_ContainsAfterTrim ==
    call.fn = "commandContainsExpected" /\ call.done =>
       LET a == Stripped(call.actual)
           e == Stripped(call.expected)
       IN /\ call.result = (a # <<>> /\ e # <<>> /\ OccursIn(e, a))
          /\ (a = <<>> \/ e = <<>>) => ~call.result

\* a match that needs the trimming has been computed
C16_Witness ==
    /\ call.fn = "commandContainsExpected" /\ call.done
    /\ call.actual = <<"a", "p", " ">> /\ call.expected = <<" ", "p">> /\ call.result

\* C17: a ProcessState saved with success and loaded from the same path has
\* the same keys, and under every key the same service, pid and pgid.
C17_StoreRoundTrip ==
    call.fn = "store" /\ call.step = "loaded" /\ call.err = "" =>
       LET saved == EntriesOrEmpty(call.state)
           back  == call.loaded.Entries
       IN /\ DOMAIN back = DOMAIN saved
          /\ \A k \in DOMAIN saved :
                /\ back[k].Service = saved[k].Service
                /\ back[k].PID = saved[k].PID
                /\ back[k].PGID = saved[k].PGID

\* two entries were saved and loaded, one under a key that is not its
\* service, with a quote in the service and a negative pgid
C17_Witness ==
    /\ call.fn = "store" /\ call.step = "loaded" /\ call.err = ""
    /\ DOMAIN call.loaded.Entries = {<<"a", "p", "i">>, <<"w">>}
    /\ call.loaded.Entries[<<"w">>].Service = <<"w", "\"", "\\">>
    /\ call.loaded.Entries[<<"w">>].PID = 1234
    /\ call.loaded.Entries[<<"w">>].PGID = -1

(***************************************************************************)
(* Properties of the follow mode                                           *)
(***************************************************************************)
\* the step is a part of a tick
TickStep == (console = "idle" /\ console' = "tick") \/ (console = "tick" /\ console' = "idle")

\* the step is the render that ends a tick
RenderStep == console = "tick" /\ console' = "idle"

\* the step is a scroll of the log pane by the user: a key or the wheel
ScrollStep ==
    \/ \E key \in {"j", "k"} : KeyMsg(key) /\ ~focusStatus /\ ~filterMode
    \/ \E key \in {"pgup", "pgdown", "home"} : KeyMsg(key) /\ ~filterMode
    \/ \E kind \in {"wheelup", "wheeldown"} : MouseMsg(kind, 0)

\* C20: while follow is set every render leaves the log pane at the bottom
\* of its content; a scroll by the user that leaves the pane away from the
\* bottom clears follow; the jump to the end (G) sets it and moves the pane
\* to the bottom; a tick never changes follow.
C20_FollowMode ==
    [][/\ RenderStep /\ follow => AtBottom(viewport')
       /\ ScrollStep /\ ~AtBottom(viewport') => ~follow'
       /\ KeyMsg("G") /\ ~focusStatus /\ ~filterMode => follow' /\ AtBottom(viewport')
       /\ TickStep => follow' = follow]_vars

\* follow is set and the render has moved the pane down to lines that
\* arrived after the pane was full
C20_Witness ==
    /\ follow /\ console = "idle"
    /\ viewport.visible > viewport.Height
    /\ viewport.YOffset = viewport.visible - viewport.Height

(***************************************************************************)
(* C21: colours of the log prefixes                                        *)
(***************************************************************************)
\* the step is a render (the second part of a tick)
IsRender == console = "tick" /\ console' # "tick"

\* the services that get their first rendered line in this step, in the
\* order of that line
FirstRendered == Uncoloured(colors, VisibleLogs(logs', filters'))

\* the place of service n among the services of the stored lines, by first
\* arrival (nothing has been evicted)
ArrivalRank(n) ==
    LET first(x) == CHOOSE i \in 1..Len(logs) : logs[i].Service = x /\ \A j \in 1..(i - 1) : logs[j].Service # x
    IN Cardinality({x \in {logs[i].Service : i \in 1..Len(logs)} : first(x) <= first(n)})

ColourKept == \A n \in DOMAIN colors : n \in DOMAIN colors' /\ colors'[n] = colors[n]

ColourByRenderOrder ==
    IF IsRender
    THEN /\ DOMAIN colors' = DOMAIN colors \cup Range(FirstRendered)
         /\ \A i \in 1..Len(FirstRendered) :
               colors'[FirstRendered[i]] = Palette[((Cardinality(DOMAIN colors) + i - 1) % 10) + 1]
    ELSE colors' = colors

\* C21 (as amended): the k-th distinct service name of which the console
\* renders a line (a line its filters keep, at the render of a tick) gets
\* palette entry (k-1) mod 10, in the order of first rendering, and a
\* service that has a colour keeps it in every later step, also while its
\* lines are hidden.
C21_ColourByFirstRender == [][ColourKept /\ ColourByRenderOrder]_vars

\* eleven services have a colour, the eleventh the first colour of the
\* palette again, and api, whose first line arrived first but hidden, got
\* its colour after web
C21_Witness ==
    /\ Cardinality(DOMAIN colors) = 11
    /\ colors["svc11"] = Palette[1]
    /\ colors["web"] = Palette[1]
    /\ colors["api"] = Palette[2]

\* C21 (as stated): the k-th distinct service name seen by the console, in
\* the order of first arrival, has palette entry (k-1) mod 10.
C21_ColourByFirstArrival ==
    \A n \in DOMAIN colors : colors[n] = Palette[((ArrivalRank(n) - 1) % 10) + 1]

(***************************************************************************)
(* C22: the focus of the console                                           *)
(***************************************************************************)
\* the key is handled while the filter text is typed: nothing but the
\* filter text and the mode changes
Captured(key) ==
    /\ console' = "idle" /\ interrupted' = interrupted
    /\ focusStatus' = focusStatus
    /\ filters' = filters /\ selected' = selected
    /\ follow' = follow /\ viewport' = viewport
    /\ CASE key = "enter" -> ~filterMode' /\ filterText' = filterText
         [] key = "esc"   -> ~filterMode' /\ filterText' = <<>>
         [] OTHER         ->
              /\ filterMode'
              /\ filterText' = IF key \in RuneKeys THEN Append(filterText, key)
                               ELSE IF key = "backspace" /\ filterText # <<>>
                                    THEN SubSeq(filterText, 1, Len(filterText) - 1)
                                    ELSE filterText

\* the key is handled outside the filter mode
Focused(key) ==
    /\ key = "tab" => focusStatus' = ~focusStatus /\ ~filterMode'
    /\ key = "/" <=> filterMode'

\* C22: outside the filter mode tab toggles between the log pane and the
\* status pane and `/` (no other key) enters the filter mode; in the filter
\* mode every key changes the filter text at most: it does not quit,
\* toggle the focus, toggle a filter, move the selection or scroll; enter
\* leaves the mode with the text kept, esc leaves it with the text cleared.
C22_FocusStateMachine ==
    [][\A key \in FocusKeys :
          KeyPress(key, FocusRunes) => IF filterMode THEN Captured(key) ELSE Focused(key)]_vars

\* "q" has been typed as filter text, in the scrolled log pane, and the
\* console goes on
C22_Witness ==
    /\ filterMode /\ filterText = <<"q">>
    /\ console = "idle" /\ ~interrupted
    /\ ~follow /\ viewport.YOffset = 0 /\ viewport.visible > viewport.Height

(***************************************************************************)
(* C23: the interrupt key                                                  *)
(***************************************************************************)
\* a selection exists over rendered log text
Selection == logSelStart # logSelEnd /\ viewport.visible > 0

\* ctrl+c is handled outside the filter mode
InterruptKey == ~filterMode /\ KeyPress("ctrl+c", {})

\* the selected text is on the clipboard (an empty text is not written),
\* the console goes on and is not interrupted
CopiedOnly ==
    /\ console' = "idle" /\ interrupted' = interrupted
    /\ LET lo == Min(logSelStart, logSelEnd)
           hi == Min(logSelStart + logSelEnd - lo, ContentLen(viewport.visible))
       IN clipboard' = IF lo < hi THEN <<lo, hi>> ELSE clipboard

QuitOnly == console' = "quit" /\ interrupted' /\ clipboard' = clipboard

\* C23 (as amended): with the log pane focused, ctrl+c copies the current
\* log selection when one exists (start # end, over non-empty rendered
\* text) and then neither sets the interrupted flag nor ends the loop; with
\* no selection, or with the status pane focused, it copies nothing, sets
\* the interrupted flag and quits.  (While the filter text is typed the key
\* is ignored.)
C23_InterruptCopiesInLogPane ==
    [][InterruptKey => IF ~focusStatus /\ Selection THEN CopiedOnly ELSE QuitOnly]_vars

\* the characters 2..3 of the log text have been copied and the console
\* goes on
C23_Witness ==
    /\ clipboard = <<1, 3>>
    /\ logSelStart = 3 /\ logSelEnd = 1
    /\ console = "idle" /\ ~interrupted

\* C23 (as stated): ctrl+c copies whenever a selection exists, and quits
\* only when none exists.
C23_InterruptCopiesSelection ==
    [][InterruptKey => IF Selection THEN CopiedOnly ELSE QuitOnly]_vars

(***************************************************************************)
(* C24: the hand-off of the statistics                                     *)
(***************************************************************************)
\* C24: the console applies the most recent completed result: once the slot
\* has been emptied, the statistics shown are those of the fetch that
\* returned last.
C24_LatestResultApplied ==
    pgStatsCh.buf = <<>> /\ fetched # <<>> => pgStats = fetched[Len(fetched)]

(***************************************************************************)
(* C25: nothing to start                                                   *)
(***************************************************************************)
\* Up has touched nothing: no status entry, no probe, no signal, no process,
\* no message, no console
Untouched ==
    /\ DOMAIN mstatuses = {} /\ reports = <<>> /\ signals = <<>>
    /\ \A n \in DOMAIN Services : proc[n] = NoProc
    /\ launched = <<>> /\ statusCh = <<>> /\ logCh = <<>>
    /\ console = "off" /\ stops = <<>>

\* C25: when the expanded service set of Up is empty, Up has returned the
\* error "no services to start" and has touched nothing; the error is
\* returned in no other case.
C25_NothingToStart ==
    /\ pc # "enter" /\ services = <<>> => pc = "returned" /\ upErr = "no services to start" /\ Untouched
    /\ upErr = "no services to start" => services = <<>>

\* `floppy up empty`, empty being a bundle without members, has returned
\* the error
C25_Witness ==
    /\ up.names = <<"empty">>
    /\ pc = "returned" /\ upErr = "no services to start"
    /\ services = <<>>

(***************************************************************************)
(* C26: unknown service                                                    *)
(***************************************************************************)
\* C26: when the service set of Up holds a service that the configuration
\* does not define, no process of the batch is ever started and Up returns
\* an error.
C26_UnknownServiceAbortsUp ==
    pc # "enter" /\ (\E n \in Range(services) : n \notin DOMAIN Services)
        => /\ \A m \in DOMAIN Services : proc[m] = NoProc
           /\ pc = "returned" => upErr # ""

(***************************************************************************)
(* C27: bundle names given to Stop                                         *)
(***************************************************************************)
\* the services a recorded call of Stop has targeted
Targeted(rec) ==
    {rec.results[i].name : i \in {j \in 1..Len(rec.results) : rec.results[j].name # ""}}

\* the running services among the members the names expand to, as Up
\* resolves the same names
ExpandedRunning(names) ==
    ExpandSet(names) \cap DOMAIN DetectRunningServices(listeners, lsofErr)

\* C27: a call of Stop with names, bundle names included, targets the
\* detected services among the members the names expand to (the set Up
\* resolves from the same names).
C27_StopExpandsBundles ==
    [][Len(stops') = Len(stops) + 1 /\ stops'[Len(stops')].services # <<>>
         => Targeted(stops'[Len(stops')]) = ExpandedRunning(stops'[Len(stops')].services)]_vars

(***************************************************************************)
(* Tool lookup (manager.go, lines 858-951)                                 *)
(* A version is the sequence of the characters of a directory name.        *)
(***************************************************************************)
IsDigit(c) == c \in Range(DigitChars)

DigitValue(c) == CHOOSE d \in 0..9 : DigitChars[d + 1] = c

RECURSIVE atoiFrom(_, _, _)
\* the loop of atoi: it stops at the first character that is no digit
atoiFrom(str, i, n) ==
    IF i > Len(str) \/ ~IsDigit(str[i]) THEN n
    ELSE atoiFrom(str, i + 1, n * 10 + DigitValue(str[i]))

\* atoi
atoi(str) == atoiFrom(str, 1, 0)

RECURSIVE parseFrom(_, _, _)
\* the loop of parseSemver over the characters of v; st is [out, part, idx]
parseFrom(v, i, st) ==
    IF i > Len(v) THEN st
    ELSE IF IsDigit(v[i])
         THEN parseFrom(v, i + 1, [st EXCEPT !.part = Append(st.part, v[i])])
         ELSE IF st.part # <<>>
              THEN parseFrom(v, i + 1,
                             [out  |-> IF st.idx < 3
                                       THEN [st.out EXCEPT ![st.idx + 1] = atoi(st.part)]
                                       ELSE st.out,
                              part |-> <<>>,
                              idx  |-> IF st.idx < 3 THEN st.idx + 1 ELSE st.idx])
              ELSE parseFrom(v, i + 1, st)

\* parseSemver: the array of three ints
parseSemver(v) ==
    LET st == parseFrom(v, 1, [out |-> <<0, 0, 0>>, part |-> <<>>, idx |-> 0])
    IN IF st.part # <<>> /\ st.idx < 3
       THEN [st.out EXCEPT ![st.idx + 1] = atoi(st.part)]
       ELSE st.out

RECURSIVE compareFrom(_, _, _)
\* the loop of compareSemver over the three components
compareFrom(pa, pb, i) ==
    IF i > 3 THEN 0
    ELSE IF pa[i] > pb[i] THEN 1
    ELSE IF pa[i] < pb[i] THEN -1
    ELSE compareFrom(pa, pb, i + 1)

\* a faulty variant of compareSemver: the versions are compared as text,
\* character by character
compareSemver_Text(a, b) ==
    LET pa == [i \in 1..3 |-> IF i <= Len(a) /\ IsDigit(a[i]) THEN DigitValue(a[i]) ELSE 0]
        pb == [i \in 1..3 |-> IF i <= Len(b) /\ IsDigit(b[i]) THEN DigitValue(b[i]) ELSE 0]
    IN compareFrom(pa, pb, 1)

\* compareSemver
compareSemver(a, b) == compareFrom(parseSemver(a), parseSemver(b), 1)

\* an entry of installs/<tool>: a file, a version directory without
\* bin/<tool>, or a version directory with it
EntryKinds == {"file", "dir", "dirbin"}

\* installs/<tool> cannot be read (os.ReadDir fails)
NoInstalls == [readable |-> FALSE, entries |-> EmptyMap]

\* the version directories of installs/<tool>
VersionDirs(root) == {v \in DOMAIN root.entries : root.entries[v] # "file"}

\* the directories sort.Slice can leave first: those no other directory is
\* above (the sort is not stable, any of several equal versions may lead)
SortedFirst(root) ==
    {v \in VersionDirs(root) : \A w \in VersionDirs(root) : compareSemver(w, v) <= 0}

\* the results of tool lookup: an override, a binary under a root, or the
\* bare name of the tool
NoPath == [kind |-> "none", root |-> "", version |-> <<>>]
BarePath == [kind |-> "bare", root |-> "", version |-> <<>>]
OverridePath == [kind |-> "override", root |-> "", version |-> <<>>]
BinPath(name, v) == [kind |-> "bin", root |-> name, version |-> v]

\* latestAsdfBin: the paths it can return for the root `name`; NoPath is ""
latestAsdfBin(name, root) ==
    IF ~root.readable \/ VersionDirs(root) = {} THEN {NoPath}
    ELSE {IF root.entries[v] = "dirbin" THEN BinPath(name, v) ELSE NoPath : v \in SortedFirst(root)}

\* resolveTool: the paths it can return; `asdf` is the root ASDF_DIR names
\* (asdf.set is FALSE when the variable is empty), `home` the root ~/.asdf
resolveTool(override, asdf, home) ==
    IF override THEN {OverridePath}
    ELSE LET first  == IF asdf.set THEN latestAsdfBin("ASDF_DIR", asdf.root) ELSE {NoPath}
             second == latestAsdfBin("home", home)
         IN (first \ {NoPath})
            \cup (IF NoPath \in first
                  THEN (second \ {NoPath}) \cup (IF NoPath \in second THEN {BarePath} ELSE {})
                  ELSE {})

\* the call compareSemver(call.a, call.b) is made
CallCompareSemver ==
    /\ call.fn = "compareSemver"
    /\ ~call.done
    /\ call' = [call EXCEPT !.done = TRUE, !.result = compareSemver(call.a, call.b)]
    /\ UNCHANGED <<osVars, upVars, proc, chVars, uiVars, envSent, viewVars, stops, launched>>

\* the call resolveTool(tool, envKey) is made
CallResolveTool ==
    /\ call.fn = "resolveTool"
    /\ ~call.done
    /\ \E path \in resolveTool(call.override, call.asdf, call.home) :
          call' = [call EXCEPT !.done = TRUE, !.path = path]
    /\ UNCHANGED <<osVars, upVars, proc, chVars, uiVars, envSent, viewVars, stops, launched>>

\* the longest version given to compareSemver
MaxVerLen == 3

\* the characters of the versions given to compareSemver
VerChars == {"0", "9", "."}

V(a, b, c) == NatDigits(a) \o <<".">> \o NatDigits(b) \o <<".">> \o NatDigits(c)

\* the versions of Test_compareSemver and Test_parseSemver
TestVersions ==
    {V(1, 0, 0), V(2, 0, 0), V(1, 10, 0), V(1, 9, 0), V(3, 11, 2), V(3, 11, 1),
     V(1, 2, 3), <<"1", "0", ".", "0">>}

Versions == UNION {[1..k -> VerChars] : k \in 0..MaxVerLen} \cup TestVersions

\* the names of the entries of installs/<tool> in the runs of tool lookup:
\* two versions apart in their second component and a release candidate
\* of one of them
InstallNames == {V(1, 9, 0), V(1, 10, 0), V(1, 10, 0) \o <<"-", "r", "c">>}

InstallRoots ==
    {NoInstalls}
    \cup {[readable |-> TRUE, entries |-> e] :
            e \in UNION {[D -> EntryKinds] : D \in SUBSET InstallNames}}

\* compareSemver on any two versions, resolveTool on any two roots
InitTool ==
    \/ \E a \in Versions, b \in Versions :
          InitCall([fn |-> "compareSemver", a |-> a, b |-> b, done |-> FALSE, result |-> 0])
    \/ \E override \in BOOLEAN, set \in BOOLEAN, r \in InstallRoots, h \in InstallRoots :
          /\ ~set => r = NoInstalls
          /\ override => h = NoInstalls /\ ~set
          /\ InitCall([fn |-> "resolveTool", override |-> override,
                       asdf |-> [set |-> set, root |-> r], home |-> h,
                       done |-> FALSE, path |-> NoPath])

NextTool == CallCompareSemver \/ CallResolveTool

SpecTool == InitTool /\ [][NextTool]_vars

(***************************************************************************)
(* C28: the highest installed version                                      *)
(***************************************************************************)
\* the digit runs of v: the positions a run starts at, the run that starts
\* at i, and the value of the k-th run (0 when v has fewer runs)
RunStarts(v) == {i \in 1..Len(v) : IsDigit(v[i]) /\ (i = 1 \/ ~IsDigit(v[i - 1]))}

RunEnd(v, i) == CHOOSE j \in i..Len(v) :
                   /\ \A k \in i..j : IsDigit(v[k])
                   /\ (j = Len(v) \/ ~IsDigit(v[j + 1]))

Component(v, k) ==
    IF Cardinality(RunStarts(v)) < k THEN 0
    ELSE LET i == CHOOSE s \in RunStarts(v) : Cardinality({t \in RunStarts(v) : t < s}) = k - 1
         IN NatValue(SubSeq(v, i, RunEnd(v, i)))

\* the order of two versions by their first three numeric components
NumericOrder(a, b) ==
    LET differ == {k \in 1..3 : Component(a, k) # Component(b, k)}
    IN IF differ = {} THEN 0
       ELSE LET k == CHOOSE d \in differ : \A e \in differ : d <= e
            IN IF Component(a, k) > Component(b, k) THEN 1 ELSE -1

\* the root a returned binary lies under
RootOf(c, name) == IF name = "ASDF_DIR" THEN c.asdf.root ELSE c.home

LoadNames == {<<"api", "wrk">>, <<"api", "web">>}

\* Up is in its launch loops and no console exists yet: api has been
\* started and has written MuxQueued lines, all forwarded to logCh by its
\* readers; the second service is about to be started
InitLoad ==
    /\ \E names \in LoadNames, noPTY \in BOOLEAN :
          /\ up = [names |-> names, detached |-> FALSE, force |-> FALSE, noPTY |-> noPTY]
          /\ services = names
          /\ order = names
          /\ mstatuses = StartingRows(names)
          /\ proc = [n \in DOMAIN Services |->
                      IF n = "api"
                      THEN LET mode == IF noPTY THEN "pipe" ELSE "pty"
                           IN [Started(n, mode, FALSE) EXCEPT !.readers = ModeStreams(mode),
                                                              !.waiter = "waiting",
                                                              !.emitted = MuxQueued]
                      ELSE NoProc]
          /\ logCh = [i \in 1..MuxQueued |->
                        [Service |-> "api",
                         Text |-> <<CHOOSE st \in ModeStreams(IF noPTY THEN "pipe" ELSE "pty") : TRUE, i>>]]
    /\ pc = "begin"
    /\ next = 2
    /\ console = "off"
    /\ listeners = [p \in Ports |-> {}]
    /\ lsofErr = {}
    /\ statuses = [n \in {} |-> 0]
    /\ statusCh = <<RunningUpdate("api")>>
    /\ signals = <<>> /\ reports = <<<<>>>> /\ upErr = ""
    /\ logs = <<>> /\ filters = EmptyMap
    /\ interrupted = FALSE /\ focusStatus = FALSE /\ filterMode = FALSE
    /\ filterText = <<>> /\ selected = 0 /\ envSent = 0
    /\ NewView
    /\ stops = <<>>
    /\ launched = <<StartEvent("api"), ReturnEvent("api")>>
    /\ call = NoCall

NextLoad ==
    \/ \E n \in DOMAIN Services, st \in Streams : ProcWriteUpTo(n, st, MuxQueued + MaxMuxLines)
    \/ \E n \in DOMAIN Services : ProcExit(n)
    \/ \E n \in DOMAIN Services, st \in Streams : ReaderForward(n, st)
    \/ \E n \in DOMAIN Services, st \in Streams : ReaderEOF(n, st)
    \/ \E n \in DOMAIN Services : WaiterStopped(n)
    \/ LaunchBegin
    \/ LaunchWarn
    \/ LaunchRunning
    \/ LaunchError
    \/ LaunchErrLog
    \/ UpRunConsole

\* the launch loops and the started processes with their readers and
\* waiters, up to the creation of the console
SpecLoad == InitLoad /\ [][NextLoad]_vars

(***************************************************************************)
(* C29: the launcher and the full channels                                 *)
(***************************************************************************)
\* the launching thread is at a send on logCh or on statusCh
AtLogSend == pc \in {"sendWarn", "sendErrLog"}
AtStatusSend == pc \in {"sendRunning", "sendError"}

\* the launching thread waits at a send on a full channel while no console
\* exists: only the console receives from the channels and only the
\* launching thread creates it, so the wait never ends
LauncherStuck ==
    /\ console = "off"
    /\ \/ AtLogSend /\ Len(logCh) = LogChCap
       \/ AtStatusSend /\ Len(statusCh) = StatusChCap

\* C29: the launching thread never blocks for ever at one of its own sends
\* on the status channel or the log channel, whatever the started services
\* have written before the console exists.
C29_LaunchNeverBlocks == ~LauncherStuck

(***************************************************************************)
(* C30: the selection range applied to the rendered text                   *)
(***************************************************************************)
\* C30: no render and no copy slices the log text with a range outside
\* 0 <= start <= end <= length of the text (a slice Go answers with a
\* panic), also when filters have hidden the lines the selection was made
\* on.
C30_SelectionRangeValid == console # "panicked"

(***************************************************************************)
(* Up for containerized services                                           *)
(***************************************************************************)
\* the command lines `floppy up` that name a docker service: one without a
\* command (dkr), one whose command is two blanks (blk), alone and with
\* other services
DockerNames == {<<"dkr">>, <<"blk">>, <<"api", "blk">>, <<"blk", "web">>, <<"dkr", "wrk">>}

DockerRuns ==
    [names : DockerNames, detached : BOOLEAN, force : {FALSE}, noPTY : BOOLEAN,
     busy : {{}}, err : {{}}]

SpecDocker == InitUp(DockerRuns) /\ [][NextLaunch]_vars

(***************************************************************************)
(* C31: a docker command without a token                                   *)
(***************************************************************************)
\* C31: building the command of a service never panics the program; a
\* docker command that yields no token (empty or blank) gives a per-service
\* error.
C31_BuildNeverPanics == pc # "panicked"

(***************************************************************************)
(* C32: a tick drains both channels, then renders once                     *)
(***************************************************************************)
\* a line as appendLog stores it
AsStored(line) ==
    [Service |-> IF line.Service = "" THEN "INFO" ELSE line.Service, Text |-> line.Text]

\* the lines queued on logCh are the last lines of the buffer `lg`, in the
\* order of the channel (those beyond the capacity of the buffer excepted)
QueuedLogsStored(lg) ==
    /\ Len(lg) = Min(LogCap, Len(logs) + Len(logCh))
    /\ \A i \in 1..Len(logCh) :
          Len(logCh) - i < LogCap => lg[Len(lg) - Len(logCh) + i] = AsStored(logCh[i])

\* the status `sts` shows for a name is the last non-empty status queued on
\* statusCh for it
QueuedStatusesApplied(sts) ==
    \A i \in 1..Len(statusCh) :
       /\ statusCh[i].Name \in DOMAIN sts
       /\ statusCh[i].Status # ""
          /\ (\A j \in (i + 1)..Len(statusCh) :
                 statusCh[j].Name = statusCh[i].Name => statusCh[j].Status = "")
          => sts[statusCh[i].Name].Status = statusCh[i].Status

\* the steps of a tick: the drain of logCh, then the drain of statusCh and
\* the render
TickDrainStep == console = "idle" /\ console' = "tick"
TickRenderStep == console = "tick" /\ console' # "tick"

\* C32: a tick receives from logCh and from statusCh until each is empty,
\* every item queued when it began is stored or applied, and only then the
\* log pane is rendered, once, from the buffer and the filters the drains
\* have left; a tick whose channels are empty is not held up.
C32_TickDrainsThenRenders ==
    /\ [](console = "idle" => ENABLED TickLogs)
    /\ [](console = "tick" => ENABLED TickStatuses)
    /\ [][/\ TickDrainStep
                => (logCh' = <<>> /\ QueuedLogsStored(logs') /\ viewport' = viewport)
          /\ TickRenderStep
                => /\ statusCh' = <<>> /\ logCh' = logCh /\ logs' = logs
                   /\ QueuedStatusesApplied(statuses')
                   /\ (console' = "idle"
                         => viewport'.visible = Len(VisibleLogs(logs', filters')))
          /\ (viewport'.visible # viewport.visible => TickRenderStep)]_vars

\* a tick that found two lines and two status updates queued has stored,
\* applied and rendered them, and a later tick has found both channels empty
C32_Witness ==
    /\ console = "idle" /\ logCh = <<>> /\ statusCh = <<>>
    /\ Len(logs) = 2 /\ viewport.visible = 2
    /\ \A n \in {"api", "web"} : statuses[n].Status = "running"
    /\ logSelStart # logSelEnd

(***************************************************************************)
(* C33: the start of a statistics fetch                                    *)
(***************************************************************************)
\* a step that starts a fetch
FetchStarted == \E id \in fetching' : id \notin fetching

StatusKeys == {"tab", " ", "n", "j"}

\* the console of api and web with a line and a status update queued for
\* each: ticks, keys, the mouse, and further status updates, one of them
\* with an empty status and one for a name without a row
NextStatus ==
    \/ TickLogs
    \/ TickStatuses
    \/ \E key \in StatusKeys : KeyPress(key, {})
    \/ \E kind \in {"press", "motion", "wheelup"}, off \in SelOffsets : MouseMsg(kind, off)
    \/ \E u \in EnvUpdates : EnvStatus(u)

SpecStatus == InitSelect /\ [][NextStatus]_vars

(***************************************************************************)
(* C34: no fabricated status transition                                    *)
(***************************************************************************)
\* the last update queued on statusCh for `name`, and the last one whose
\* status is not empty
UpdatesFor(name) == SelectSeq(statusCh, LAMBDA u : u.Name = name)
StatusFor(name) == SelectSeq(statusCh, LAMBDA u : u.Name = name /\ u.Status # "")

\* C34: the status table changes only in the step of a tick that drains
\* statusCh, and there a row changes only when an update for its name was
\* queued: its status becomes the last non-empty status queued for the name
\* (it is kept when every queued status is empty), its port is kept, and a
\* name without a row gets a row only by an update for it.
C34_NoFabricatedStatus ==
    [][/\ statuses' # statuses => console = "tick" /\ statusCh # <<>>
       /\ \A n \in DOMAIN statuses' :
             /\ n \notin DOMAIN statuses => UpdatesFor(n) # <<>>
             /\ n \in DOMAIN statuses
                  => /\ statuses'[n].Port = statuses[n].Port
                     /\ statuses'[n].Status # statuses[n].Status
                          => /\ StatusFor(n) # <<>>
                             /\ statuses'[n].Status = StatusFor(n)[Len(StatusFor(n))].Status
       /\ DOMAIN statuses \subseteq DOMAIN statuses']_vars

\* the console has drained the running updates of api and web and an update
\* for dkr, which had no row, and keys and the mouse have acted: api and web
\* show running on their ports and dkr has a row
C34_Witness ==
    /\ console = "idle" /\ statusCh = <<>>
    /\ "dkr" \in DOMAIN statuses /\ statuses["dkr"].Status = "stopped"
    /\ \A n \in {"api", "web"} :
          statuses[n].Status = "running" /\ statuses[n].Port = Services[n].Port
    /\ focusStatus /\ logSelStart # logSelEnd

(***************************************************************************)
(* C35: the tasks and the status updates of a start                        *)
(***************************************************************************)
\* the step sends the update u on statusCh
StatusSent(u) == statusCh' = Append(statusCh, u)

\* the reader tasks a process started in `mode` is given
ReadersOf(mode) == IF mode = "pty" THEN 1 ELSE IF mode = "pipe" THEN 2 ELSE 0

\* C35: the running update of a service is sent once, for a process that
\* has been started, together with the start of its reader tasks (one in
\* PTY mode, stdout and stderr in pipe mode) and of its one exit waiter; the
\* stopped update is sent once, by that waiter, after the process has
\* exited and after running; the error update is sent only for a service
\* whose start failed, for which no task exists and nothing else is sent;
\* no task is started at any other moment.
C35_TasksAndUpdatesPerStart ==
    [][\A n \in DOMAIN Services :
          /\ StatusSent(RunningUpdate(n))
                => /\ proc[n].state # "none" /\ proc[n].waiter = "none" /\ proc[n].readers = {}
                   /\ proc'[n].waiter = "waiting"
                   /\ proc'[n].readers = ModeStreams(proc[n].mode)
                   /\ Cardinality(proc'[n].readers) = ReadersOf(proc[n].mode)
          /\ StatusSent(StoppedUpdate(n))
                => /\ proc[n].state = "exited"
                   /\ proc[n].waiter = "waiting" /\ proc'[n].waiter = "done"
          /\ StatusSent(ErrorUpdate(n))
                => /\ proc[n].state = "none" /\ proc[n].waiter = "none" /\ proc[n].readers = {}
                   /\ pc = "sendError" /\ order[next] = n
          /\ proc'[n].waiter # proc[n].waiter
                => \/ proc[n].waiter = "none" /\ StatusSent(RunningUpdate(n))
                   \/ proc[n].waiter = "waiting" /\ StatusSent(StoppedUpdate(n))
          /\ proc'[n].readers # proc[n].readers
                => \/ StatusSent(RunningUpdate(n))
                   \/ proc'[n].readers \subseteq proc[n].readers
          /\ proc[n].state = "none" /\ pc = "sendErrLog" /\ order[next] = n
                => proc'[n] = NoProc]_vars

\* a service started on pipes after the PTY was refused has its two readers
\* and its waiter, and one started on a PTY has exited, its reader has ended
\* and its waiter has sent stopped
C35_Witness ==
    /\ \E n \in DOMAIN Services :
          /\ proc[n].mode = "pipe" /\ proc[n].readers = {"stdout", "stderr"}
          /\ proc[n].waiter = "waiting"
    /\ \E n \in DOMAIN Services :
          /\ proc[n].mode = "pty" /\ proc[n].state = "exited" /\ proc[n].readers = {}
          /\ proc[n].waiter = "done"

(***************************************************************************)
(* C36: the pipes at the exit of the process                               *)
(***************************************************************************)
\* the step takes the first unread line of stream st of service n and
\* queues it on logCh
Forwarded(n, st) ==
    /\ proc[n].buf[st] # <<>>
    /\ proc'[n].buf[st] = Tail(proc[n].buf[st])
    /\ logCh' = Append(logCh, [Service |-> n, Text |-> <<st, Head(proc[n].buf[st])>>])

\* C36: in pipe mode a line the process has written leaves its pipe only by
\* being forwarded to logCh by the reader of the pipe, and a reader ends
\* only when its pipe is empty and the process has exited; the exit waiter
\* takes no unread line away.
C36_PipesReadToTheEnd ==
    [][\A n \in DOMAIN Services, st \in Streams :
          proc[n].mode = "pipe"
             => /\ Len(proc'[n].buf[st]) < Len(proc[n].buf[st]) => Forwarded(n, st)
                /\ st \in proc[n].readers /\ st \notin proc'[n].readers
                      => proc[n].buf[st] = <<>> /\ proc[n].state = "exited"]_vars

(***************************************************************************)
(* C37: the selection cursor of the status pane                            *)
(***************************************************************************)
\* the keys that move the selection in the status pane (down and up are j
\* and k, end is G)
SelectionKeys == {"j", "k", "g", "G"}

\* the index of the last row that matches the text filter, 0 when none does
LastRow(sts, text) == IF maxSelection(sts, text) < 0 THEN 0 ELSE maxSelection(sts, text)

\* C37: after a selection key handled while the status pane has the focus,
\* the selection cursor is at least 0 and at most the index of the last row
\* that matches the text filter (0 when no row matches).
C37_SelectionInRange ==
    [][\A key \in SelectionKeys :
          KeyPress(key, FocusRunes) /\ focusStatus /\ ~filterMode
             => selected' >= 0 /\ selected' <= LastRow(statuses', filterText')]_vars

(***************************************************************************)
(* C38: the port requirement of a batch                                    *)
(***************************************************************************)
\* the uses the configuration gives a port among the services of a batch:
\* the primary port of any service, the hot-reload and websocket ports of a
\* portal, and the bundler's fixed port for every portal
UsersOf(svcs, p) ==
    {<<n, "main">> : n \in {m \in Range(svcs) : p > 0 /\ SvcDef(m).Port = p}}
    \cup {<<n, "HMR">> :
            n \in {m \in Range(svcs) : SvcDef(m).Type = "portal" /\ p > 0 /\ SvcDef(m).HMRPort = p}}
    \cup {<<n, "WebSocket">> :
            n \in {m \in Range(svcs) : SvcDef(m).Type = "portal" /\ p > 0 /\ SvcDef(m).WSPort = p}}
    \cup {<<n, "Vite default WebSocket">> :
            n \in {m \in Range(svcs) : SvcDef(m).Type = "portal" /\ p = ViteDefaultWSPort}}

\* the ports a batch needs
Needed(svcs) == {p \in Ports : UsersOf(svcs, p) # {}}

\* validatePorts runs in this step
ValidateStep == pc = "validate" /\ pc' # "validate"

\* the conflict list has one conflict per needed port that has an owner and
\* could be probed, and a conflict lists every use of its port once
ConflictsPerPort(rep, svcs, L, E) ==
    /\ \A i, j \in 1..Len(rep) : rep[i].Port = rep[j].Port => i = j
    /\ {rep[i].Port : i \in 1..Len(rep)} = {p \in Needed(svcs) : L[p] # {} /\ p \notin E}
    /\ \A i \in 1..Len(rep) :
          /\ Range(rep[i].Services) = UsersOf(svcs, rep[i].Port)
          /\ Len(rep[i].Services) = Cardinality(UsersOf(svcs, rep[i].Port))

\* C38: the ports validatePorts computes for a batch are the primary port
\* of every service that declares one and, for every portal, its hot-reload
\* and websocket ports when declared and the fixed port 24678; a run of Up
\* reports each of these ports at most once, and the conflict of a port
\* needed by several services lists all of them.
C38_PortRequirement ==
    [][ValidateStep =>
          /\ DOMAIN RequiredPorts(services) = Needed(services)
          /\ \A p \in Needed(services) :
                /\ Range(RequiredPorts(services)[p]) = UsersOf(services, p)
                /\ Len(RequiredPorts(services)[p]) = Cardinality(UsersOf(services, p))
          /\ Len(reports') = Len(reports) + 1
          /\ ConflictsPerPort(reports'[Len(reports')], services, listeners, lsofErr)]_vars

\* Up has probed a batch in which two services need the same port, that
\* port is owned, and a second port is in conflict as well
C38_Witness ==
    /\ pc \in {"begin", "returned"}
    /\ reports # <<>>
    /\ \E i, j \in 1..Len(LastReport) :
          /\ i # j
          /\ Len(LastReport[i].Services) = 2

(***************************************************************************)
(* C39: the filter text is typed in the status pane                        *)
(***************************************************************************)
\* C39: in every state of the console the filter text is being typed only
\* while the status pane has the focus (filterMode implies focusStatus),
\* also when `/` was pressed while the log pane had it.
C39_TypingInStatusPane == filterMode => focusStatus

\* the filter mode was entered after text had been selected with the mouse
\* in the log pane, which takes mouse events only while it has the focus
C39_Witness ==
    /\ filterMode /\ focusStatus
    /\ console = "idle"
    /\ logSelStart # logSelEnd

(***************************************************************************)
(* C40: the lines the log pane renders                                     *)
(***************************************************************************)
\* the lines that arrive, in turn, in the runs of the filters: lines of
\* two services, the launcher's warning and error lines and a line with an
\* empty service name
FilterLines ==
    <<[Service |-> "api", Text |-> <<"stdout", 1>>],
      WarnLine("api"),
      ErrorLine("web"),
      [Service |-> "", Text |-> <<"stdout", 2>>],
      [Service |-> "web", Text |-> <<"stdout", 3>>]>>

\* the next line is sent on logCh (at most two wait between two ticks)
FilterLog ==
    /\ pc = "console"
    /\ envSent < Len(FilterLines)
    /\ Len(logCh) < 2
    /\ logCh' = Append(logCh, FilterLines[envSent + 1])
    /\ envSent' = envSent + 1
    /\ UNCHANGED <<osVars, upVars, proc, statusCh, uiVars, viewVars, stops, auxVars>>

FilterKeys == {"tab", " ", "a", "n", "j"}

NextFilter ==
    \/ FilterLog
    \/ TickLogs
    \/ TickStatuses
    \/ \E key \in FilterKeys : KeyPress(key, {})

\* the console of api, web and wrk while lines arrive and the user toggles
\* the filters, hides all and shows all
SpecFilter == InitConsole /\ [][NextFilter]_vars

\* the stored lines whose service has a true filter flag, all of them when
\* the filter map has no entry
FlaggedLines(lg, f) ==
    {i \in 1..Len(lg) : DOMAIN f = {} \/ (lg[i].Service \in DOMAIN f /\ f[lg[i].Service])}

\* the stored lines tagged with a name that has no row in the status table
RowlessLines == {i \in 1..Len(logs) : logs[i].Service \notin DOMAIN statuses}

\* C40: a render shows exactly the stored lines whose service has a true
\* filter flag (all of them when no filter entry exists); a line tagged with
\* a name without a row in the status table (ERROR, WARN, INFO for an empty
\* service name) keeps a true flag, and no key changes the flag of such a
\* name, whatever toggles, select-all and select-none keys are pressed.
C40_RowlessLinesStayRendered ==
    /\ [](RowlessLines \subseteq FlaggedLines(logs, filters))
    /\ [][/\ TickRenderStep => viewport'.visible = Cardinality(FlaggedLines(logs', filters'))
          /\ \A key \in FilterKeys : KeyPress(key, {}) =>
                /\ logs' = logs
                /\ \A n \in DOMAIN filters \ DOMAIN statuses :
                      n \in DOMAIN filters' /\ filters'[n] = filters[n]]_vars

\* every service of the table has been hidden with select-none while the
\* lines of api and web, a warning, an error and a line without a service
\* name are stored: the render shows the last three
C40_Witness ==
    /\ console = "idle"
    /\ Len(logs) = Len(FilterLines)
    /\ \A n \in DOMAIN statuses : n \in DOMAIN filters /\ ~filters[n]
    /\ {"WARN", "ERROR", "INFO"} \subseteq DOMAIN filters
    /\ viewport.visible = 3

====
